---- MODULE Spec2Model ----
(***************************************************************************)
(* A model of the agent execution core of cclaw (src/src): the agent turn  *)
(* loop over a session, and the two streaming provider adapters.           *)
(*                                                                         *)
(* Strings are sequences of tokens (a token is a TLA+ string standing for  *)
(* one or more bytes); strcat/memcpy-append is \o.  A C pointer that may   *)
(* be NULL is NULL (<<>>) or Some(s) (<<s>>), so that the empty string     *)
(* Some(<<>>) and the null pointer are different values, as in C.          *)
(***************************************************************************)
EXTENDS Integers, Sequences, FiniteSets, TLC

(***************************************************************************)
(* Bounds of the model (not program constants).                            *)
(***************************************************************************)
\* tool calls one provider response may carry (agent model)
MaxToolCalls == 2
\* deviations of one session's script from the plain one (see the provider
\* section): a further agent_turn on the session, a further tool call in a
\* response, a malformed or failing tool call, text beside tool calls, an
\* empty or absent final text
MaxOdd == 1
\* data lines of one streamed response
MaxEvents == 4
\* command outputs and files are 0..MaxSizeSteps steps of SizeStep bytes
\* long, one byte more or one byte less
MaxSizeSteps == 34
SizeStep == 16384
\* session_add_* calls of one front-end session
MaxOps == 3
\* the scheduler is watched for MaxMinutes minutes from 12:04:00 on
MaxMinutes == 7
\* callbacks of one run that take longer than a minute
MaxSlow == 1
\* seconds the 30-second sleep may take longer
MaxJitter == 1
\* cron_add and cron_remove calls of one run of the registering thread
MaxRegOps == 3
\* passes of cron_run beside the registering thread
MaxPasses == 2
\* connections and frames that reach the WebSocket server in one run
MaxWsEvents == 2
\* of these, the ones that are not the plain request or a text frame
MaxWsOdd == 1
\* connections, text frames and disconnections at the gateway
MaxGwOps == 5
\* bytes of a short identity file
SmallFile == 1000
\* bytes of the longest workspace path tried
MaxWorkspaceLen == 20
\* bytes of host name, system, machine and model name together, at most
MaxRuntimeNames == 40

(***************************************************************************)
(* Nullable strings.                                                       *)
(***************************************************************************)
NULL == <<>>
Some(s) == <<s>>
IsNull(p) == p = <<>>
Val(p) == p[1]
\* mutant: the string is dropped
OrEmpty_none(p) == <<>>
\* `p ? p : ""` (main.c:126)
OrEmpty(p) == IF IsNull(p) THEN <<>> ELSE Val(p)
\* a one-token string
Tok(t) == <<t>>

(***************************************************************************)
(* JSON documents as token strings: an object is "{" members "}" where no  *)
(* member token is a brace; " " is insignificant whitespace.               *)
(***************************************************************************)
StripWs(s) == SelectSeq(s, LAMBDA t : t # " ")
\* cJSON_Parse succeeds and yields an object
IsJsonObject(s) ==
    LET c == StripWs(s) IN
    /\ Len(c) >= 2
    /\ c[1] = "{"
    /\ c[Len(c)] = "}"
    /\ \A i \in 2..(Len(c) - 1) : c[i] \notin {"{", "}"}
\* the members of the parsed object
JsonMembers(s) == LET c == StripWs(s) IN SubSeq(c, 2, Len(c) - 1)
\* cJSON_PrintUnformatted of an object with these members
JsonPrint(members) == <<"{">> \o members \o <<"}">>
EmptyObject == <<>>

(***************************************************************************)
(* Session (session.c).                                                    *)
(* A message is [role, kind, text, blocks]: kind "string" is a plain       *)
(* string content, kind "array" an array of blocks.  A block is            *)
(* [type, id, name, input, text]; an absent JSON member is NULL.           *)
(***************************************************************************)
VARIABLES
    messages,     \* s->messages, the cJSON array
    count,        \* s->count
    session_file, \* s->session_file, the path; empty for a session without id
    pc,           \* position of agent_turn
    turn,         \* loop variable of agent_turn
    resp,         \* the ChatResponse of the current iteration
    ti,           \* index i of the tool loop (1-based)
    tr,           \* ToolExecResult of the current tool call
    final_text,   \* final_text of agent_turn
    calls,        \* provider calls made in the current agent_turn
    user_msgs,    \* agent_turn calls started on this session
    received,     \* tool calls the provider has issued on this session, in order
    odd,          \* deviations the provider script has used
    exec_log,     \* tool calls executed on this session, in order
    last_text,    \* text of the last response of this turn that carried text
    saves,        \* session_save calls in the current agent_turn
    failure       \* how the last provider call of this turn failed, or "none"

agentVars == <<messages, count, session_file, pc, turn, resp, ti, tr, final_text,
               calls, user_msgs, received, odd, exec_log, last_text, saves, failure>>

(***************************************************************************)
(* One streamed provider call (provider.c, provider_openai.c, http.c).     *)
(***************************************************************************)
VARIABLES
    dialect,      \* "A" (provider.c) or "B" (provider_openai.c)
    sst,          \* StreamState / OaiStreamState
    sstatus,      \* position of the streamed call
    slog,         \* the data payloads handed to the stream callback, in order
    delivered,    \* the deltas handed to on_delta, in order
    stop_seen,    \* on_delta returned false or [DONE] arrived
    snap,         \* st.resp when that happened
    sreturned     \* the ChatResponse the call returned

streamVars == <<dialect, sst, sstatus, slog, delivered, stop_seen, snap, sreturned>>

(***************************************************************************)
(* One tool_execute call seen by the size of its output (tools.c,          *)
(* tool_shell.c, tool_file.c).                                             *)
(***************************************************************************)
VARIABLES
    tool_in,      \* the call: tool, bytes the command prints or the file
                  \* holds, exit code, length of the path or name
    tool_len      \* strlen(r.output) of the result, -1 before the call

toolVars == <<tool_in, tool_len>>

(***************************************************************************)
(* The front-end's session (main.c:162, 172, 322, 352) and the disk.       *)
(***************************************************************************)
VARIABLES
    workspace,    \* cfg.workspace, a path
    session_id,   \* the id the front-end gives session_new, or NULL
    disk          \* the directories that exist, and the contents of the
                  \* session file (NULL while there is no such file)

envVars == <<workspace, session_id>>

(***************************************************************************)
(* A front-end working on a session through session.c alone.               *)
(***************************************************************************)
VARIABLES
    op,           \* the last session operation
    nops,         \* session_add_* calls made so far
    reloaded      \* the session the last session_new returned

sessVars == <<op, nops, reloaded>>

(***************************************************************************)
(* The cron scheduler (cron.c) and the wall clock.                         *)
(***************************************************************************)
VARIABLES
    jobs,         \* sched->jobs[0 .. count-1], each [expr, last_run, active]
    clock,        \* the wall clock: seconds of local time since midnight
    now,          \* `now` of the current pass of cron_run
    tm,           \* `*tm` of the current pass
    job_i,        \* loop variable of the job loop (1-based)
    cron_pc,      \* position of cron_run
    fired,        \* per job, the wall-clock minutes its callback was invoked in
    slow          \* callbacks so far that took longer than a minute

cronVars == <<jobs, clock, now, tm, job_i, cron_pc, fired, slow>>

(***************************************************************************)
(* cron_add and cron_remove on one thread, cron_run on another (cron.c).   *)
(***************************************************************************)
VARIABLES
    table,        \* sched->jobs[0 .. CRON_MAX_JOBS-1] (1-based here)
    sched_count,  \* sched->count
    reg_pc,       \* position of the registering thread
    reg_arg,      \* the arguments of the cron_add call under way
    reg_ops,      \* cron_add and cron_remove calls made so far
    last_add,     \* the last cron_add call that returned: arguments, count
                  \* at its start, return value
    added,        \* what the cron_add calls that succeeded have registered
    removed,      \* the slots whose cron_remove has returned
    run_pc,       \* position of cron_run
    run_i,        \* loop variable of its job loop (1-based)
    run_now,      \* `now` of its current pass
    passes,       \* passes begun
    last_start,   \* the last callback cron_run started: the slot as it was
                  \* and whether its cron_remove had returned
    last_remove   \* the last cron_remove call: its name, what it returned,
                  \* and which call of the thread it was

regVars == <<table, sched_count, reg_pc, reg_arg, reg_ops, last_add, added, removed,
             run_pc, run_i, run_now, passes, last_start, last_remove>>

VARIABLES
    fr_op,        \* the opcode of the frame to be sent
    fr_data,      \* its payload, a string of bytes
    fr_mask,      \* the masking key of a frame a client sends, NULL for the server's
    fr_wire,      \* the bytes on the wire
    fr_frame,     \* the WsFrame ws_read_frame has filled
    fr_pc         \* "input", "wire", "read"; "off" when the codec is not watched

frameVars == <<fr_op, fr_data, fr_mask, fr_wire, fr_frame, fr_pc>>

VARIABLES
    auth_token,   \* cfg->auth_token
    on_message,   \* cfg->on_message: "gateway" for main.c's, "refusing" for one
                  \* that returns false
    fds,          \* the client slots fds[1..nfds-1]: the connection in each
    revents,      \* fds[i].revents for every slot of the array: "in", "none",
                  \* or "unset" for a slot no poll has written yet
    conns,        \* every connection a client has opened, and what became of it
    backlog,      \* the connections that wait in the listen queue
    ws_pc,        \* "poll", "accept", "clients"; "off" when there is no server
    ws_i,         \* the loop index i over the client slots
    ws_events,    \* connections and frames that have arrived so far
    ws_odd,       \* of these, the requests that were not the plain one
    ws_ready,     \* the connections the poll of this pass has reported readable
    ws_reads      \* the connections ws_read_frame has returned on in this pass

wsVars == <<auth_token, on_message, fds, revents, conns, backlog, ws_pc, ws_i,
            ws_events, ws_odd, ws_ready, ws_reads>>

VARIABLES
    px_text,      \* expr_str, the text handed to cron_parse
    px_rc,        \* what cron_parse has returned
    px_expr,      \* the CronExpr it has filled
    px_tm,        \* the local time handed to cron_matches
    px_match,     \* what cron_matches has returned
    px_pc         \* "input", "parsed", "matched"; "off" when not watched

parseVars == <<px_text, px_rc, px_expr, px_tm, px_match, px_pc>>

VARIABLES
    gw_clients,   \* the connections the gateway has accepted: descriptor,
                  \* whether still open, text frames handled
    gw_dirs,      \* the directories that exist
    gw_files,     \* per descriptor number, the contents of the session file
                  \* ws_<fd>.json (NULL while there is no such file)
    gw_hist,      \* the last agent turn of the gateway: the connection, and
                  \* the messages of its session when the provider is called
    gw_ops        \* connections, frames and disconnections so far

gwVars == <<gw_clients, gw_dirs, gw_files, gw_hist, gw_ops>>

VARIABLES
    g_running     \* main.c:37, cleared by sigint_handler

VARIABLES
    sp_arena,     \* the Arena of main.c:275: cap, pos, and which block of
                  \* memory buf points to (realloc may give another one)
    sp_out,       \* out: the block it points into and the offset there
    sp_len,       \* len, the bytes of the prompt so far
    sp_cap,       \* cap, what the builder takes the size of out to be
    sp_i,         \* the index into files[] of the next identity file
    sp_top,       \* how far behind out the writes through out have reached
    sp_workspace, \* strlen(workspace)
    sp_pc         \* "call", "files", "tail", "returned", "crashed"; "off"
                  \* when not watched

promptVars == <<sp_arena, sp_out, sp_len, sp_cap, sp_i, sp_top, sp_workspace, sp_pc>>

\* the parts of the model for single functions and front-ends
fourthVars == <<parseVars, gwVars, g_running, promptVars>>

\* the parts of the model that came after the first five
laterVars == <<regVars, frameVars, wsVars, fourthVars>>

\* the variables each part of the model leaves alone
notAgentVars == <<streamVars, toolVars, sessVars, envVars, disk, cronVars, laterVars>>
notSaveVars == <<streamVars, toolVars, sessVars, envVars, cronVars, laterVars>>
notStreamVars == <<agentVars, toolVars, sessVars, envVars, disk, cronVars, laterVars>>
notToolVars == <<agentVars, streamVars, sessVars, envVars, disk, cronVars, laterVars>>
notCronVars == <<agentVars, streamVars, toolVars, sessVars, envVars, disk, laterVars>>
firstVars == <<agentVars, streamVars, toolVars, sessVars, envVars, disk, cronVars>>
notRegVars == <<firstVars, frameVars, wsVars, fourthVars>>
notFrameVars == <<firstVars, regVars, wsVars, fourthVars>>
notWsVars == <<firstVars, regVars, frameVars, fourthVars>>
notParseVars == <<firstVars, regVars, frameVars, wsVars, gwVars, g_running, promptVars>>
notGwVars == <<firstVars, regVars, frameVars, wsVars, parseVars, g_running, promptVars>>
notSigVars == <<firstVars, regVars, frameVars, wsVars, parseVars, gwVars, promptVars>>
notPromptVars == <<firstVars, regVars, frameVars, wsVars, parseVars, gwVars, g_running>>
\* what session.c does not touch of agent_turn's state
agentCtl == <<pc, turn, resp, ti, tr, final_text, calls, user_msgs, received,
              odd, exec_log, last_text, saves, failure>>
notSessVars == <<agentCtl, session_file, streamVars, toolVars, envVars, cronVars,
                 laterVars>>

vars == <<firstVars, laterVars>>

\* max_turns of agent_turn
max_turns == 10

TextBlock(text) ==
    [type |-> "text", id |-> NULL, name |-> NULL, input |-> NULL, text |-> Some(text)]
\* cJSON_AddStringToObject with a NULL string adds nothing; input_json that does
\* not parse is replaced by an empty object
ToolUseBlock(tool_id, name, input_json) ==
    [type |-> "tool_use", id |-> tool_id, name |-> name,
     input |-> IF ~IsNull(input_json) /\ IsJsonObject(Val(input_json))
               THEN Some(JsonMembers(Val(input_json)))
               ELSE Some(EmptyObject),
     text |-> NULL]
ToolResultBlock(tool_id, output) ==
    [type |-> "tool_result", id |-> tool_id, name |-> NULL, input |-> NULL,
     text |-> Some(output)]

StringMsg(role, text) ==
    [role |-> role, kind |-> "string", text |-> text, blocks |-> <<>>]
ArrayMsg(role, blocks) ==
    [role |-> role, kind |-> "array", text |-> <<>>, blocks |-> blocks]

\* A session is the pair [messages, count].
session_add_user(s, text) ==
    [messages |-> Append(s.messages, StringMsg("user", text)),
     count |-> s.count + 1]

session_add_assistant(s, text) ==
    [messages |-> Append(s.messages, ArrayMsg("assistant", <<TextBlock(text)>>)),
     count |-> s.count + 1]

\* mutant: the block always goes into a new assistant message
session_add_tool_use_new(s, tool_id, name, input_json) ==
    [messages |-> Append(s.messages,
                         ArrayMsg("assistant", <<ToolUseBlock(tool_id, name, input_json)>>)),
     count |-> s.count + 1]

session_add_tool_use(s, tool_id, name, input_json) ==
    LET block == ToolUseBlock(tool_id, name, input_json)
        \* cJSON_GetArrayItem(messages, count - 1)
        hasLast == s.count >= 1 /\ s.count <= Len(s.messages)
    IN  IF /\ hasLast
           /\ s.messages[s.count].role = "assistant"
           /\ s.messages[s.count].kind = "array"
        THEN [messages |-> [s.messages EXCEPT ![s.count].blocks = Append(@, block)],
              count |-> s.count]
        ELSE [messages |-> Append(s.messages, ArrayMsg("assistant", <<block>>)),
              count |-> s.count + 1]

\* mutant: the result block is written without its tool_use_id
session_add_tool_result_noid(s, tool_id, output) ==
    [messages |-> Append(s.messages, ArrayMsg("user", <<ToolResultBlock(NULL, output)>>)),
     count |-> s.count + 1]

session_add_tool_result(s, tool_id, output) ==
    [messages |-> Append(s.messages, ArrayMsg("user", <<ToolResultBlock(tool_id, output)>>)),
     count |-> s.count + 1]

Session == [messages |-> messages, count |-> count]

(***************************************************************************)
(* The session file.  cJSON_Print writes the message array as text, a      *)
(* token per byte group: punctuation, white space, and quoted strings in   *)
(* which a quote or a backslash is escaped by a backslash.  cJSON_Parse    *)
(* reads such a text into a tree [t, s, keys, items].  A member token of a *)
(* tool input (see the JSON section above) stands for one "key":value pair *)
(* and is written and read as it is.                                       *)
(***************************************************************************)
WsTokens == {" ", "\n", "\t", "\r"}
Punctuation == {"[", "]", "{", "}", ",", ":", "\"", "\\"}

RECURSIVE Escape(_)
Escape(s) ==
    IF s = <<>> THEN <<>>
    ELSE (IF Head(s) \in {"\"", "\\"} THEN <<"\\", Head(s)>> ELSE <<Head(s)>>)
         \o Escape(Tail(s))

PrintString(s) == <<"\"">> \o Escape(s) \o <<"\"">>

RECURSIVE JoinWith(_, _)
\* the texts of a sequence, with sep between them
JoinWith(parts, sep) ==
    IF parts = <<>> THEN <<>>
    ELSE IF Len(parts) = 1 THEN parts[1]
    ELSE parts[1] \o sep \o JoinWith(Tail(parts), sep)

PrintMember(key, value) == PrintString(Tok(key)) \o <<":", "\t">> \o value
PrintObject(members) ==
    IF members = <<>> THEN <<"{", "}">>
    ELSE <<"{", "\n">> \o JoinWith(members, <<",", "\n">>) \o <<"\n", "}">>
PrintArray(items) ==
    IF items = <<>> THEN <<"[", "]">>
    ELSE <<"[">> \o JoinWith(items, <<",", " ">>) \o <<"]">>

\* the "input" object of a tool_use block
PrintInput(members) == PrintObject([i \in 1..Len(members) |-> Tok(members[i])])

\* a block, its members in the order session_add_* added them
PrintBlock(b) ==
    PrintObject(
        <<PrintMember("type", PrintString(Tok(b.type)))>>
        \o (IF IsNull(b.id) THEN <<>>
            ELSE <<PrintMember(IF b.type = "tool_result" THEN "tool_use_id" ELSE "id",
                               PrintString(Val(b.id)))>>)
        \o (IF IsNull(b.name) THEN <<>>
            ELSE <<PrintMember("name", PrintString(Val(b.name)))>>)
        \o (IF IsNull(b.input) THEN <<>>
            ELSE <<PrintMember("input", PrintInput(Val(b.input)))>>)
        \o (IF IsNull(b.text) THEN <<>>
            ELSE <<PrintMember(IF b.type = "tool_result" THEN "content" ELSE "text",
                               PrintString(Val(b.text)))>>))

PrintMessage(m) ==
    PrintObject(
        <<PrintMember("role", PrintString(Tok(m.role))),
          PrintMember("content",
                      IF m.kind = "string" THEN PrintString(m.text)
                      ELSE PrintArray([i \in 1..Len(m.blocks) |->
                                          PrintBlock(m.blocks[i])]))>>)

\* cJSON_Print(s->messages)
cJSON_Print(msgs) == PrintArray([i \in 1..Len(msgs) |-> PrintMessage(msgs[i])])

JString(s) == [t |-> "string", s |-> s, keys |-> <<>>, items |-> <<>>]
JArray(items) == [t |-> "array", s |-> <<>>, keys |-> <<>>, items |-> items]
JObject(keys, items) == [t |-> "object", s |-> <<>>, keys |-> keys, items |-> items]
\* the value of a member token
JMember == [t |-> "member", s |-> <<>>, keys |-> <<>>, items |-> <<>>]
JInvalid == [t |-> "invalid", s |-> <<>>, keys |-> <<>>, items |-> <<>>]

ParseFail == [ok |-> FALSE, v |-> JInvalid, i |-> 0]
Parsed(v, i) == [ok |-> TRUE, v |-> v, i |-> i]

RECURSIVE SkipWs(_, _)
SkipWs(T, i) == IF i <= Len(T) /\ T[i] \in WsTokens THEN SkipWs(T, i + 1) ELSE i

RECURSIVE ParseString(_, _, _)
\* i is the place after the opening quote
ParseString(T, i, acc) ==
    IF i > Len(T) THEN ParseFail
    ELSE IF T[i] = "\"" THEN Parsed(JString(acc), i + 1)
    ELSE IF T[i] = "\\"
         THEN IF i + 1 > Len(T) THEN ParseFail
              ELSE ParseString(T, i + 2, Append(acc, T[i + 1]))
    ELSE ParseString(T, i + 1, Append(acc, T[i]))

RECURSIVE ParseValue(_, _)
RECURSIVE ParseItems(_, _, _)
RECURSIVE ParseMembers(_, _, _, _)

ParseValue(T, i0) ==
    LET i == SkipWs(T, i0) IN
    IF i > Len(T) THEN ParseFail
    ELSE IF T[i] = "\"" THEN ParseString(T, i + 1, <<>>)
    ELSE IF T[i] = "["
         THEN LET j == SkipWs(T, i + 1) IN
              IF j <= Len(T) /\ T[j] = "]" THEN Parsed(JArray(<<>>), j + 1)
              ELSE ParseItems(T, j, <<>>)
    ELSE IF T[i] = "{"
         THEN LET j == SkipWs(T, i + 1) IN
              IF j <= Len(T) /\ T[j] = "}" THEN Parsed(JObject(<<>>, <<>>), j + 1)
              ELSE ParseMembers(T, j, <<>>, <<>>)
    ELSE ParseFail

\* i is the place of the next item
ParseItems(T, i, acc) ==
    LET r == ParseValue(T, i) IN
    IF ~r.ok THEN ParseFail
    ELSE LET j == SkipWs(T, r.i) IN
         IF j > Len(T) THEN ParseFail
         ELSE IF T[j] = "," THEN ParseItems(T, j + 1, Append(acc, r.v))
         ELSE IF T[j] = "]" THEN Parsed(JArray(Append(acc, r.v)), j + 1)
         ELSE ParseFail

\* i is the place of the next member
ParseMembers(T, i0, keys, items) ==
    LET i == SkipWs(T, i0)
        \* the member at i: its key, its value and the place after it
        m == IF i > Len(T) THEN ParseFail
             ELSE IF T[i] = "\""
                  THEN LET k == ParseString(T, i + 1, <<>>)
                           c == IF k.ok THEN SkipWs(T, k.i) ELSE 0
                       IN  IF ~k.ok \/ c > Len(T) \/ T[c] # ":" THEN ParseFail
                           ELSE LET v == ParseValue(T, c + 1) IN
                                IF ~v.ok THEN ParseFail
                                ELSE [ok |-> TRUE, k |-> k.v.s, v |-> v.v, i |-> v.i]
             ELSE IF T[i] \notin Punctuation
                  THEN [ok |-> TRUE, k |-> Tok(T[i]), v |-> JMember, i |-> i + 1]
             ELSE ParseFail
    IN  IF ~m.ok THEN ParseFail
        ELSE LET j == SkipWs(T, m.i) IN
             IF j > Len(T) THEN ParseFail
             ELSE IF T[j] = ","
                  THEN ParseMembers(T, j + 1, Append(keys, m.k), Append(items, m.v))
             ELSE IF T[j] = "}"
                  THEN Parsed(JObject(Append(keys, m.k), Append(items, m.v)), j + 1)
             ELSE ParseFail

\* cJSON_Parse(buf): the tree, or JInvalid for NULL
cJSON_Parse(T) == LET r == ParseValue(T, 1) IN IF r.ok THEN r.v ELSE JInvalid

\* cJSON_GetObjectItem: the first member of that name, or JInvalid for NULL
GetObjectItem(o, key) ==
    IF o.t = "object" /\ \E i \in 1..Len(o.keys) : o.keys[i] = Tok(key)
    THEN o.items[CHOOSE i \in 1..Len(o.keys) :
                    /\ o.keys[i] = Tok(key)
                    /\ \A j \in 1..(i - 1) : o.keys[j] # Tok(key)]
    ELSE JInvalid

\* a string member as a nullable string
StringItem(o, key) ==
    LET v == GetObjectItem(o, key) IN IF v.t = "string" THEN Some(v.s) ELSE NULL

\* a one-token string member as the token, "?" when it is something else
NameItem(o, key) ==
    LET v == StringItem(o, key) IN
    IF ~IsNull(v) /\ Len(Val(v)) = 1 THEN Val(v)[1] ELSE "?"

\* the members of an object as member tokens, "?" for any other member
MembersOfTree(o) ==
    [i \in 1..Len(o.keys) |-> IF o.items[i].t = "member" THEN o.keys[i][1] ELSE "?"]

\* the tree of a block as a block of the model
BlockOfTree(o) ==
    LET type == NameItem(o, "type")
        input == GetObjectItem(o, "input")
    IN  [type |-> type,
         id |-> StringItem(o, IF type = "tool_result" THEN "tool_use_id" ELSE "id"),
         name |-> StringItem(o, "name"),
         input |-> IF input.t = "object" THEN Some(MembersOfTree(input)) ELSE NULL,
         text |-> StringItem(o, IF type = "tool_result" THEN "content" ELSE "text")]

\* the tree of a message as a message of the model
MessageOfTree(o) ==
    LET content == GetObjectItem(o, "content") IN
    IF content.t = "array"
    THEN ArrayMsg(NameItem(o, "role"),
                  [i \in 1..Len(content.items) |-> BlockOfTree(content.items[i])])
    ELSE StringMsg(NameItem(o, "role"), content.s)

(***************************************************************************)
(* session_new and session_save (session.c:7-43, 114-135) on the disk.     *)
(***************************************************************************)
\* snprintf(s->session_file, ...) of session_new; calloc leaves it empty
SessionFile(ws, id) ==
    IF IsNull(id) THEN <<>>
    ELSE ws \o <<"/", ".cclaw", "/", "sessions", "/">> \o Val(id) \o <<".json">>

\* the path cut at its last slash (strrchr), the path itself without one
DirName(path) ==
    LET slashes == {i \in 1..Len(path) : path[i] = "/"} IN
    IF slashes = {} THEN path
    ELSE SubSeq(path, 1, (CHOOSE i \in slashes : \A j \in slashes : j <= i) - 1)

RECURSIVE ShellWords(_, _)
\* the words the shell splits an unquoted text into, at blanks
ShellWords(s, word) ==
    IF s = <<>> THEN (IF word = <<>> THEN {} ELSE {word})
    ELSE IF Head(s) = " "
         THEN (IF word = <<>> THEN {} ELSE {word}) \cup ShellWords(Tail(s), <<>>)
    ELSE ShellWords(Tail(s), Append(word, Head(s)))

\* system("mkdir -p <dir>")
mkdir_p(dirs, dir) == dirs \cup ShellWords(dir, <<>>)

NoDisk == [dirs |-> {}, file |-> NULL]

\* the disk after session_save; fopen(path, "w") needs the directory
session_save(msgs, path, d) ==
    IF path = <<>> THEN d
    ELSE LET dirs == mkdir_p(d.dirs, DirName(path)) IN
         [dirs |-> dirs,
          file |-> IF DirName(path) \in dirs THEN Some(cJSON_Print(msgs)) ELSE d.file]

\* the session session_new returns
session_new(ws, id, d) ==
    LET path == SessionFile(ws, id)
        loaded == IF path # <<>> /\ ~IsNull(d.file) THEN cJSON_Parse(Val(d.file))
                  ELSE JInvalid
    IN  IF loaded.t = "array"
        THEN [messages |-> [i \in 1..Len(loaded.items) |-> MessageOfTree(loaded.items[i])],
              count |-> Len(loaded.items)]
        ELSE [messages |-> <<>>, count |-> 0]

(***************************************************************************)
(* Tool dispatcher (tools.c, tool_shell.c, tool_file.c).  The command or   *)
(* path named by the input decides the outcome of the side effect.         *)
(***************************************************************************)
ToolOk(out) == [crash |-> FALSE, success |-> TRUE, output |-> Some(Tok(out))]
ToolFail(out) == [crash |-> FALSE, success |-> FALSE, output |-> Some(Tok(out))]
ToolCrash == [crash |-> TRUE, success |-> FALSE, output |-> NULL]

tool_shell_exec(input_json) ==
    IF IsNull(input_json) \/ ~IsJsonObject(Val(input_json))
    THEN ToolFail("Error: invalid JSON input")
    ELSE LET m == JsonMembers(Val(input_json)) IN
         IF \A i \in 1..Len(m) : m[i] \notin {"command:ok", "command:fail"}
         THEN ToolFail("Error: missing 'command' parameter")
         ELSE IF \E i \in 1..Len(m) : m[i] = "command:fail"
              THEN ToolFail("[exit 1]")
              ELSE ToolOk("[exit 0]")

tool_file_read(input_json) ==
    IF IsNull(input_json) \/ ~IsJsonObject(Val(input_json))
    THEN ToolFail("Error: invalid JSON")
    ELSE LET m == JsonMembers(Val(input_json)) IN
         IF \A i \in 1..Len(m) : m[i] \notin {"path:x", "path:missing"}
         THEN ToolFail("Error: missing 'path'")
         ELSE IF \E i \in 1..Len(m) : m[i] = "path:missing"
              THEN ToolFail("Error: cannot read")
              ELSE ToolOk("contents of x")

tool_file_write(input_json) ==
    IF IsNull(input_json) \/ ~IsJsonObject(Val(input_json))
    THEN ToolFail("Error: invalid JSON")
    ELSE LET m == JsonMembers(Val(input_json)) IN
         IF \/ \A i \in 1..Len(m) : m[i] # "path:x"
            \/ \A i \in 1..Len(m) : m[i] # "content:c"
         THEN ToolFail("Error: missing 'path' or 'content'")
         ELSE ToolOk("Wrote 1 bytes to x")

\* The set of outcomes of tool_execute.  strcmp on a NULL name is undefined
\* behaviour: the process dies, or the comparison fails and the unknown-tool
\* branch formats the name as "(null)".
tool_execute(name, input_json) ==
    IF IsNull(name) THEN {ToolCrash, ToolFail("Unknown tool: (null)")}
    ELSE IF Val(name) = Tok("shell") THEN {tool_shell_exec(input_json)}
    ELSE IF Val(name) = Tok("file_read") THEN {tool_file_read(input_json)}
    ELSE IF Val(name) = Tok("file_write") THEN {tool_file_write(input_json)}
    ELSE {ToolFail("Unknown tool: nosuch")}

(***************************************************************************)
(* The provider as agent_turn sees it (provider.h): any ChatResponse.  The *)
(* script of one session is a sequence of responses.  A plain response is  *)
(* either one well-formed shell call with a fresh id and no text, or a     *)
(* final text "a"; every deviation (a further call, a repeated or missing  *)
(* id, a missing or unknown name, an input the tool rejects, text beside   *)
(* tool calls, an empty or absent final text) counts against MaxOdd.       *)
(***************************************************************************)
Texts == {NULL, Some(<<>>), Some(Tok("a"))}

CallKinds == {"plain", "dupid", "noid", "unknown", "noname",
              "failcmd", "badjson", "noparam"}

IdStr(k) == Tok(ToString(k))

\* the k-th tool call the provider issues on this session
MakeCall(kind, k) ==
    [id |-> CASE kind = "dupid" -> Some(IdStr(1))
              [] kind = "noid" -> NULL
              [] OTHER -> Some(IdStr(k)),
     name |-> CASE kind = "unknown" -> Some(Tok("nosuch"))
                [] kind = "noname" -> NULL
                [] OTHER -> Some(Tok("shell")),
     input_json |-> CASE kind = "failcmd" -> Some(<<"{", "command:fail", "}">>)
                      [] kind = "badjson" -> Some(<<"{", "command:ok">>)
                      [] kind = "noparam" -> Some(<<"{", "}">>)
                      [] OTHER -> Some(<<"{", "command:ok", "}">>)]

KindCost(kinds) ==
    (Len(kinds) - 1) + Cardinality({i \in 1..Len(kinds) : kinds[i] # "plain"})

RECURSIVE KindSeqs(_, _)
\* the sequences of n call kinds with at most b kinds other than "plain"
KindSeqs(n, b) ==
    IF n = 0 THEN {<<>>}
    ELSE {Append(ks, "plain") : ks \in KindSeqs(n - 1, b)}
         \cup (IF b > 0
               THEN {Append(ks, kind) : ks \in KindSeqs(n - 1, b - 1),
                                        kind \in CallKinds \ {"plain"}}
               ELSE {})

\* the tool-call lists a response may carry when `used` deviations are spent
ToolCallLists(used, k) ==
    { [i \in 1..Len(kinds) |-> MakeCall(kinds[i], k + i)] :
        kinds \in { ks \in UNION { KindSeqs(n, MaxOdd - used - (n - 1)) :
                                    n \in 1..MaxToolCalls } :
                      /\ used + KindCost(ks) <= MaxOdd
                      /\ \A i \in 1..Len(ks) : ks[i] = "dupid" => k + i > 1 } }

\* text beside tool calls is a deviation; so is a final text other than "a"
ToolTextCost(text) == IF IsNull(text) THEN 0 ELSE 1
FinalTextCost(text) == IF text = Some(Tok("a")) THEN 0 ELSE 1

\* the deviations a tool-call list has used
CallsCost(tcs, k) ==
    (Len(tcs) - 1)
    + Cardinality({i \in 1..Len(tcs) : tcs[i] # MakeCall("plain", k + i)})

ChatResponse(text, tool_calls) ==
    [text |-> text, tool_calls |-> tool_calls, stop_reason |-> NULL,
     input_tokens |-> 0, output_tokens |-> 0]
NoResponse == ChatResponse(NULL, <<>>)
num_tools(r) == Len(r.tool_calls)

(***************************************************************************)
(* agent_turn (main.c:61-153), one action per step of the loop.            *)
(***************************************************************************)
\* the workspaces and session ids of the model: a path with a blank in it
\* ("/my ws") and a session without id (the one-shot query) are deviations
PlainWorkspace == <<"/", "ws">>
Workspaces == {PlainWorkspace, <<"/", "my", " ", "ws">>}
PlainId == Some(Tok("cli"))
SessionIds == {NULL, PlainId}
EnvCost(ws, id) ==
    (IF ws = PlainWorkspace THEN 0 ELSE 1) + (IF id = PlainId THEN 0 ELSE 1)

\* the plain workspace, before any session was saved in it
EnvOff ==
    /\ workspace = PlainWorkspace
    /\ session_id = PlainId
    /\ disk = NoDisk

\* any workspace within the deviations allowed
EnvInit ==
    /\ workspace \in Workspaces
    /\ session_id \in SessionIds
    /\ EnvCost(workspace, session_id) <= MaxOdd
    /\ disk = NoDisk

SessOff ==
    /\ op = "none"
    /\ nops = 0
    /\ reloaded = [messages |-> <<>>, count |-> 0]

\* the state after session_new(workspace, session_id) on the empty disk
AgentInit ==
    /\ messages = session_new(workspace, session_id, disk).messages
    /\ count = session_new(workspace, session_id, disk).count
    /\ session_file = SessionFile(workspace, session_id)
    /\ pc = "idle"
    /\ turn = 0
    /\ resp = NoResponse
    /\ ti = 0
    /\ tr = ToolCrash
    /\ final_text = NULL
    /\ calls = 0
    /\ user_msgs = 0
    /\ received = <<>>
    /\ odd = EnvCost(workspace, session_id)
    /\ exec_log = <<>>
    /\ last_text = NULL
    /\ saves = 0
    /\ failure = "none"

\* a session's first agent_turn is plain, a further one a deviation
TurnCost(n) == IF n = 0 THEN 0 ELSE 1

\* main.c:62-65: a front-end calls agent_turn on the session
AgentTurnStart ==
    /\ pc \in {"idle", "returned"}
    /\ odd + TurnCost(user_msgs) <= MaxOdd
    /\ odd' = odd + TurnCost(user_msgs)
    /\ LET s == session_add_user(Session, Tok("hi")) IN
         /\ messages' = s.messages
         /\ count' = s.count
    /\ pc' = "call"
    /\ turn' = 0
    /\ final_text' = NULL
    /\ calls' = 0
    /\ user_msgs' = user_msgs + 1
    /\ last_text' = NULL
    /\ saves' = 0
    /\ failure' = "none"
    /\ resp' = NoResponse
    /\ ti' = 0
    /\ UNCHANGED notAgentVars
    /\ UNCHANGED <<session_file, tr, received, exec_log>>

\* mutant: the text is stored without the `if (resp.text)` test
TextIfAny_overwrite(text, old) == text

\* `if (resp.text)` of main.c:131 and main.c:141
TextIfAny(text, old) == IF IsNull(text) THEN old ELSE text

\* main.c:67-108: the provider call of one iteration returns tool calls
ProviderCallTools ==
    /\ pc = "call"
    /\ turn < max_turns
    /\ \E text \in Texts : \E tcs \in ToolCallLists(odd + ToolTextCost(text), Len(received)) :
         /\ resp' = ChatResponse(text, tcs)
         /\ received' = received \o tcs
         /\ odd' = odd + ToolTextCost(text) + CallsCost(tcs, Len(received))
         /\ last_text' = (IF text = NULL THEN last_text ELSE text)
    /\ calls' = calls + 1
    /\ ti' = 1
    /\ pc' = "tool_use"
    /\ UNCHANGED notAgentVars
    /\ UNCHANGED failure
    /\ UNCHANGED <<messages, count, session_file, turn, tr, final_text, user_msgs,
                   exec_log, saves>>

\* main.c:140-148: what agent_turn does with a response without tool calls
NoToolsSession(s, text) ==
    IF IsNull(text) THEN s ELSE session_add_assistant(s, Val(text))

\* main.c:67-105, 140-148: the provider call returns no tool calls
ProviderCallFinal ==
    /\ pc = "call"
    /\ turn < max_turns
    /\ \E text \in Texts :
         /\ odd + FinalTextCost(text) <= MaxOdd
         /\ odd' = odd + FinalTextCost(text)
         /\ resp' = ChatResponse(text, <<>>)
         /\ last_text' = (IF text = NULL THEN last_text ELSE text)
         /\ LET s == NoToolsSession(Session, text) IN
              /\ messages' = s.messages
              /\ count' = s.count
         /\ final_text' = TextIfAny(text, final_text)
    /\ calls' = calls + 1
    /\ pc' = "save"
    /\ UNCHANGED notAgentVars
    /\ UNCHANGED failure
    /\ UNCHANGED <<session_file, turn, ti, tr, user_msgs, received, exec_log, saves>>

\* main.c:111-113
ToolUse ==
    /\ pc = "tool_use"
    /\ LET tc == resp.tool_calls[ti]
           s == session_add_tool_use(Session, tc.id, tc.name, tc.input_json)
       IN  /\ messages' = s.messages
           /\ count' = s.count
    /\ pc' = "tool_exec"
    /\ UNCHANGED notAgentVars
    /\ UNCHANGED failure
    /\ UNCHANGED <<session_file, turn, resp, ti, tr, final_text, calls,
                   user_msgs, received, odd, exec_log, last_text, saves>>

\* mutant: the tool loop executes the first call of the response every time
ExecCall_first(r, i) == r.tool_calls[1]

\* resp.tool_calls[i] of main.c:116-117
ExecCall(r, i) == r.tool_calls[i]

\* main.c:116-118
ToolExec ==
    /\ pc = "tool_exec"
    /\ LET tc == ExecCall(resp, ti) IN
       \E r \in tool_execute(tc.name, tc.input_json) :
         IF r.crash
         THEN /\ pc' = "crashed"
              /\ UNCHANGED <<tr, exec_log>>
         ELSE /\ tr' = r
              /\ exec_log' = Append(exec_log, tc)
              /\ pc' = "tool_result"
    /\ UNCHANGED notAgentVars
    /\ UNCHANGED failure
    /\ UNCHANGED <<messages, count, session_file, turn, resp, ti, final_text, calls,
                   user_msgs, received, odd, last_text, saves>>

\* the for loop of main.c:67: the next iteration, or the end of the loop
NextIteration(t) == IF t + 1 < max_turns THEN "call" ELSE "save"

\* main.c:125-137: append the result, then the next tool call or the end of
\* the iteration
ToolResult ==
    /\ pc = "tool_result"
    /\ LET s == session_add_tool_result(Session, resp.tool_calls[ti].id, OrEmpty(tr.output))
       IN  /\ messages' = s.messages
           /\ count' = s.count
    /\ IF ti < num_tools(resp)
       THEN /\ ti' = ti + 1
            /\ pc' = "tool_use"
            /\ UNCHANGED <<turn, resp, final_text>>
       ELSE /\ final_text' = TextIfAny(resp.text, final_text)
            /\ resp' = NoResponse
            /\ ti' = 0
            /\ turn' = turn + 1
            /\ pc' = NextIteration(turn)
    /\ UNCHANGED notAgentVars
    /\ UNCHANGED failure
    /\ UNCHANGED <<session_file, tr, calls, user_msgs, received, odd,
                   exec_log, last_text, saves>>

\* main.c:151-152 and session.c:114-135
SaveAndReturn ==
    /\ pc = "save"
    /\ disk' = session_save(messages, session_file, disk)
    /\ saves' = saves + 1
    /\ pc' = "returned"
    /\ UNCHANGED notSaveVars
    /\ UNCHANGED failure
    /\ UNCHANGED <<messages, count, session_file, turn, resp, ti, tr, final_text,
                   calls, user_msgs, received, odd, exec_log, last_text>>

AgentNext ==
    \/ AgentTurnStart
    \/ ProviderCallTools
    \/ ProviderCallFinal
    \/ ToolUse
    \/ ToolExec
    \/ ToolResult
    \/ SaveAndReturn

(***************************************************************************)
(* Stream payloads.  A payload is one record for both dialects:            *)
(*   kind     "done" ([DONE]), "garbage" (unparseable or without type /    *)
(*            choices), the dialect-A event types, or "chunk" (dialect B)  *)
(*   text     delta.text / delta.content                                   *)
(*   tcs      dialect B: delta.tool_calls, each [idx, id, name, args]      *)
(*   id, name content_block.id / .name                                     *)
(*   args     delta.partial_json                                           *)
(*   stop     delta.stop_reason / finish_reason                            *)
(*   in_tok, out_tok  the usage counts                                     *)
(* An absent member is NULL.                                               *)
(***************************************************************************)
Payload(kind) ==
    [kind |-> kind, text |-> NULL, tcs |-> <<>>, id |-> NULL, name |-> NULL,
     args |-> NULL, stop |-> NULL, in_tok |-> NULL, out_tok |-> NULL]
TcDelta(idx, id, name, args) == [idx |-> idx, id |-> id, name |-> name, args |-> args]

EventsA ==
    { Payload("done"), Payload("garbage"), Payload("content_block_stop"),
      Payload("content_block_start_text"),
      [Payload("message_start") EXCEPT !.in_tok = Some(3)],
      [Payload("message_delta") EXCEPT !.stop = Some(Tok("end_turn")), !.out_tok = Some(7)] }
    \cup { [Payload("text_delta") EXCEPT !.text = Some(t)] : t \in {Tok("x"), <<>>} }
    \cup { [Payload("input_json_delta") EXCEPT !.args = Some(f)] :
             f \in {Tok("{"), Tok("}"), <<>>} }
    \cup { [Payload("content_block_start_tool") EXCEPT !.id = i, !.name = Some(Tok("shell"))] :
             i \in {Some(Tok("a")), NULL} }

EventsB ==
    { Payload("done"), Payload("garbage"),
      [Payload("chunk") EXCEPT !.stop = Some(Tok("stop"))],
      [Payload("chunk") EXCEPT !.stop = Some(Tok("tool_calls")),
                               !.in_tok = Some(3), !.out_tok = Some(7)] }
    \cup { [Payload("chunk") EXCEPT !.text = Some(t)] : t \in {Tok("x"), Tok("y"), <<>>} }
    \cup { [Payload("chunk") EXCEPT !.tcs = <<tc>>] :
             tc \in { TcDelta(0, Some(Tok("a")), Some(Tok("file_")), NULL),
                      TcDelta(0, NULL, Some(Tok("read")), NULL),
                      TcDelta(0, NULL, NULL, Some(Tok("{"))),
                      TcDelta(0, NULL, NULL, Some(Tok("}"))),
                      TcDelta(1, Some(Tok("b")), Some(Tok("shell")), NULL),
                      TcDelta(1, NULL, NULL, Some(<<"{", "}">>)) } }

Events(d) == IF d = "A" THEN EventsA ELSE EventsB

(***************************************************************************)
(* The stream state: StreamState (provider.c:161-171) and OaiStreamState   *)
(* (provider_openai.c:217-229) in one record.  The slot tables of dialect  *)
(* B are zero-initialised arrays: a function holds the slots written so    *)
(* far, every other slot is NULL.                                          *)
(***************************************************************************)
\* capacity of tool_ids, tool_names, tool_args
OAI_SLOTS == 32

StreamState0 ==
    [resp |-> ChatResponse(NULL, <<>>),
     current_tool_id |-> NULL, current_tool_name |-> NULL, current_tool_input |-> NULL,
     tool_ids |-> <<>>, tool_names |-> <<>>, tool_args |-> <<>>, num_tools |-> 0]

\* tbl[i] of a zero-initialised table (slot i is key i + 1)
Slot(tbl, i) == IF (i + 1) \in DOMAIN tbl THEN tbl[i + 1] ELSE NULL
\* tbl[i] = v
SetSlot(tbl, i, v) ==
    [k \in 1..(IF i + 1 > Len(tbl) THEN i + 1 ELSE Len(tbl)) |->
        IF k = i + 1 THEN v ELSE IF k <= Len(tbl) THEN tbl[k] ELSE NULL]

\* strdup or realloc+memcpy of a text delta (provider.c:199-205,
\* provider_openai.c:266-273)
AppendText(old, t) == IF IsNull(old) THEN Some(t) ELSE Some(Val(old) \o t)

\* the result of one callback invocation
CbResult(st, cont, called, crash) ==
    [st |-> st, cont |-> cont, called |-> called, crash |-> crash]

\* provider.c:185-206: a text delta; cb_ret is what on_delta returns
TextDeltaA(st, p, cb_ret) ==
    IF IsNull(p.text) THEN CbResult(st, TRUE, FALSE, FALSE)
    ELSE IF ~cb_ret THEN CbResult(st, FALSE, TRUE, FALSE)
    ELSE CbResult([st EXCEPT !.resp.text = AppendText(@, Val(p.text))], TRUE, TRUE, FALSE)

\* provider.c:207-218: an input_json_delta.  With no buffer allocated and an
\* empty fragment the handler writes through realloc(NULL, 0): the write
\* lands in a minimal allocation, or the process dies.
InputJsonDeltaA(st, p) ==
    IF IsNull(p.args) THEN {CbResult(st, TRUE, FALSE, FALSE)}
    ELSE IF IsNull(st.current_tool_input)
    THEN IF Val(p.args) = <<>>
         THEN {CbResult([st EXCEPT !.current_tool_input = Some(<<>>)], TRUE, FALSE, FALSE),
               CbResult(st, FALSE, FALSE, TRUE)}
         ELSE {CbResult([st EXCEPT !.current_tool_input = Some(Val(p.args))],
                        TRUE, FALSE, FALSE)}
    ELSE {CbResult([st EXCEPT !.current_tool_input = Some(Val(@) \o Val(p.args))],
                   TRUE, FALSE, FALSE)}

\* provider.c:221-239: content_block_start of a tool_use block
BlockStartToolA(st, p) ==
    [st EXCEPT !.current_tool_id = p.id,
               !.current_tool_name = p.name,
               !.current_tool_input = Some(<<>>)]

\* `if (st->current_tool_id)` of provider.c:242
PendingA(st) == ~IsNull(st.current_tool_id)

\* provider.c:240-254: content_block_stop
BlockStopA(st) ==
    IF PendingA(st)
    THEN [st EXCEPT !.resp.tool_calls =
                       Append(@, [id |-> st.current_tool_id,
                                  name |-> st.current_tool_name,
                                  input_json |-> st.current_tool_input]),
                    !.current_tool_id = NULL,
                    !.current_tool_name = NULL,
                    !.current_tool_input = NULL]
    ELSE st

\* provider.c:255-268: message_delta
MessageDeltaA(st, p) ==
    [st EXCEPT !.resp.stop_reason = IF IsNull(p.stop) THEN @ ELSE p.stop,
               !.resp.output_tokens = IF IsNull(p.out_tok) THEN @ ELSE Val(p.out_tok)]

\* provider.c:269-278: message_start
MessageStartA(st, p) ==
    [st EXCEPT !.resp.input_tokens = IF IsNull(p.in_tok) THEN @ ELSE Val(p.in_tok)]

\* provider.c:173-282: the set of outcomes of stream_cb on payload p
stream_cb(st, p, cb_ret) ==
    CASE p.kind = "done" -> {CbResult(st, FALSE, FALSE, FALSE)}
      [] p.kind = "text_delta" -> {TextDeltaA(st, p, cb_ret)}
      [] p.kind = "input_json_delta" -> InputJsonDeltaA(st, p)
      [] p.kind = "content_block_start_tool" ->
            {CbResult(BlockStartToolA(st, p), TRUE, FALSE, FALSE)}
      [] p.kind = "content_block_stop" -> {CbResult(BlockStopA(st), TRUE, FALSE, FALSE)}
      [] p.kind = "message_delta" -> {CbResult(MessageDeltaA(st, p), TRUE, FALSE, FALSE)}
      [] p.kind = "message_start" -> {CbResult(MessageStartA(st, p), TRUE, FALSE, FALSE)}
      [] OTHER -> {CbResult(st, TRUE, FALSE, FALSE)}

\* provider_openai.c:145-151, 247-254: finish_reason mapped
MapFinish(f) ==
    IF f = Tok("stop") THEN Tok("end_turn")
    ELSE IF f = Tok("tool_calls") THEN Tok("tool_use")
    ELSE f

\* provider_openai.c:296-299: a name fragment for slot idx
StoreName(old, name) == Some(name)

\* provider_openai.c:300-310: an arguments fragment for slot idx
AppendArgs(old, args) == IF IsNull(old) THEN Some(args) ELSE Some(Val(old) \o args)

\* provider_openai.c:283: `if (idx >= 32) continue;`
Skipped(tc) == tc.idx >= OAI_SLOTS

\* the element has something to store
Carries(tc) == ~IsNull(tc.id) \/ ~IsNull(tc.name) \/ ~IsNull(tc.args)

\* provider_openai.c:288-309 for an index below 0, where the write does not
\* stop the process: in OaiStreamState (provider_openai.c:217-229) the slot
\* idx of a table is the slot 32 + idx of the table before it, so a name
\* lands in tool_ids and arguments land in tool_names
StrayWrite(st, tc) ==
    IF tc.idx < -OAI_SLOTS THEN st
    ELSE [st EXCEPT
            !.tool_ids = IF IsNull(tc.name) THEN @
                         ELSE SetSlot(@, OAI_SLOTS + tc.idx, tc.name),
            !.tool_names = IF IsNull(tc.args) THEN @
                           ELSE SetSlot(@, OAI_SLOTS + tc.idx, tc.args)]

\* provider_openai.c:281-311: one element of delta.tool_calls
ToolCallDeltaB(st, tc) ==
    IF Skipped(tc) THEN st
    ELSE IF tc.idx < 0 THEN StrayWrite(st, tc)
    ELSE [st EXCEPT
            !.num_tools = IF tc.idx >= @ THEN tc.idx + 1 ELSE @,
            !.tool_ids = IF IsNull(tc.id) THEN @ ELSE SetSlot(@, tc.idx, tc.id),
            !.tool_names = IF IsNull(tc.name) THEN @
                           ELSE SetSlot(@, tc.idx, StoreName(Slot(@, tc.idx), Val(tc.name))),
            !.tool_args = IF IsNull(tc.args) THEN @
                          ELSE SetSlot(@, tc.idx, AppendArgs(Slot(@, tc.idx), Val(tc.args)))]

RECURSIVE ToolCallDeltasB(_, _)
\* provider_openai.c:280: cJSON_ArrayForEach over delta.tool_calls
ToolCallDeltasB(st, tcs) ==
    IF tcs = <<>> THEN st
    ELSE ToolCallDeltasB(ToolCallDeltaB(st, Head(tcs)), Tail(tcs))

\* provider_openai.c:316-323: usage
UsageB(st, p) ==
    [st EXCEPT !.resp.input_tokens = IF IsNull(p.in_tok) THEN @ ELSE Val(p.in_tok),
               !.resp.output_tokens = IF IsNull(p.out_tok) THEN @ ELSE Val(p.out_tok)]

\* the element makes the handler write before the start of its tables
Stray(tc) == tc.idx < 0 /\ Carries(tc)

\* provider_openai.c:231-327: the outcomes of oai_stream_cb on payload p.  A
\* write before the start of a table is undefined: the process dies, or the
\* write lands in what lies there
oai_stream_cb(st, p, cb_ret) ==
    IF p.kind = "done" THEN {CbResult(st, FALSE, FALSE, FALSE)}
    ELSE IF p.kind # "chunk" THEN {CbResult(st, TRUE, FALSE, FALSE)}
    ELSE LET s1 == [st EXCEPT !.resp.stop_reason =
                                 IF IsNull(p.stop) THEN @ ELSE Some(MapFinish(Val(p.stop)))]
         IN  IF ~IsNull(p.text) /\ ~cb_ret
             THEN {CbResult(s1, FALSE, TRUE, FALSE)}
             ELSE LET s2 == IF IsNull(p.text) THEN s1
                            ELSE [s1 EXCEPT !.resp.text = AppendText(@, Val(p.text))]
                      s3 == ToolCallDeltasB(s2, p.tcs)
                  IN  {CbResult(UsageB(s3, p), TRUE, ~IsNull(p.text), FALSE)}
                      \cup (IF \E k \in 1..Len(p.tcs) : Stray(p.tcs[k])
                            THEN {CbResult(s2, FALSE, ~IsNull(p.text), TRUE)}
                            ELSE {})

\* provider_openai.c:351-360: the slots 0..num_tools-1 become the tool calls
FinalizeB(st) ==
    IF st.num_tools > 0
    THEN [st.resp EXCEPT !.tool_calls =
            [k \in 1..st.num_tools |->
               [id |-> Slot(st.tool_ids, k - 1),
                name |-> Slot(st.tool_names, k - 1),
                input_json |-> Slot(st.tool_args, k - 1)]]]
    ELSE st.resp

(***************************************************************************)
(* Non-streaming response bodies.  A dialect-A body is                     *)
(* [stop_reason, in_tok, out_tok, content]; a content block is             *)
(* [type, text, id, name, input] with input a JSON document.  A dialect-B  *)
(* body is [content, tool_calls, finish, in_tok, out_tok] (choices[0]);    *)
(* a tool call is [id, name, args].  An absent member is NULL.             *)
(***************************************************************************)
RECURSIVE TextOfBlocks(_)
\* provider.c:88-96, 115-123: the text of the text blocks, joined
TextOfBlocks(blocks) ==
    IF blocks = <<>> THEN <<>>
    ELSE (IF Head(blocks).type = "text" THEN OrEmpty(Head(blocks).text) ELSE <<>>)
         \o TextOfBlocks(Tail(blocks))

\* provider.c:105-110: one tool_use block
ToolOfBlock(b) ==
    [id |-> b.id, name |-> b.name,
     input_json |-> IF IsNull(b.input) THEN NULL
                    ELSE Some(JsonPrint(JsonMembers(Val(b.input))))]

RECURSIVE ToolsOfBlocks(_)
\* provider.c:98-113: the tool_use blocks, in array order
ToolsOfBlocks(blocks) ==
    IF blocks = <<>> THEN <<>>
    ELSE (IF Head(blocks).type = "tool_use" THEN <<ToolOfBlock(Head(blocks))>> ELSE <<>>)
         \o ToolsOfBlocks(Tail(blocks))

\* provider.c:50-128 on a body that parses and carries no error member
parse_response(body) ==
    [text |-> IF TextOfBlocks(body.content) = <<>> THEN NULL
              ELSE Some(TextOfBlocks(body.content)),
     tool_calls |-> ToolsOfBlocks(body.content),
     stop_reason |-> body.stop_reason,
     input_tokens |-> IF IsNull(body.in_tok) THEN 0 ELSE Val(body.in_tok),
     output_tokens |-> IF IsNull(body.out_tok) THEN 0 ELSE Val(body.out_tok)]

\* provider_openai.c:107-185 on a body that parses, carries no error member
\* and has a choice with a message
openai_parse_response(body) ==
    [text |-> IF ~IsNull(body.content) /\ Val(body.content) # <<>> THEN body.content
              ELSE NULL,
     tool_calls |-> [k \in 1..Len(body.tool_calls) |->
                       [id |-> body.tool_calls[k].id,
                        name |-> body.tool_calls[k].name,
                        input_json |-> body.tool_calls[k].args]],
     stop_reason |-> IF IsNull(body.finish) THEN NULL ELSE Some(MapFinish(Val(body.finish))),
     input_tokens |-> IF IsNull(body.in_tok) THEN 0 ELSE Val(body.in_tok),
     output_tokens |-> IF IsNull(body.out_tok) THEN 0 ELSE Val(body.out_tok)]

\* what provider_chat_stream (provider.c:304) and openai_chat_stream
\* (provider_openai.c:351-362) return
StreamReturn(d, st) == IF d = "A" THEN st.resp ELSE FinalizeB(st)

\* mutant: the read loop goes on whatever the callback returned
HttpGoOn_always(cb_cont) == TRUE

\* http.c:279: `if (!cb(...)) goto done;`
HttpGoOn(cb_cont) == cb_cont

StreamCallback(d, st, p, cb_ret) ==
    IF d = "A" THEN stream_cb(st, p, cb_ret) ELSE oai_stream_cb(st, p, cb_ret)

\* the streamed call is not running (the agent specification)
StreamOff ==
    /\ dialect = "A"
    /\ sst = StreamState0
    /\ sstatus = "off"
    /\ slog = <<>>
    /\ delivered = <<>>
    /\ stop_seen = FALSE
    /\ snap = ChatResponse(NULL, <<>>)
    /\ sreturned = ChatResponse(NULL, <<>>)

\* provider.c:297-301, provider_openai.c:344-348: the request is sent
StreamInit ==
    /\ dialect \in {"A", "B"}
    /\ sst = StreamState0
    /\ sstatus = "reading"
    /\ slog = <<>>
    /\ delivered = <<>>
    /\ stop_seen = FALSE
    /\ snap = ChatResponse(NULL, <<>>)
    /\ sreturned = ChatResponse(NULL, <<>>)

\* http.c:271-288: one data line arrives and is handed to the callback
Deliver(events) ==
    /\ sstatus = "reading"
    /\ Len(slog) < MaxEvents
    /\ \E p \in events : \E cb_ret \in BOOLEAN :
       \E r \in StreamCallback(dialect, sst, p, cb_ret) :
         /\ slog' = Append(slog, p)
         /\ sst' = r.st
         /\ delivered' = IF r.called THEN Append(delivered, [delta |-> Val(p.text), ret |-> cb_ret])
                         ELSE delivered
         /\ IF r.crash
            THEN /\ sstatus' = "crashed"
                 /\ UNCHANGED <<stop_seen, snap>>
            ELSE /\ sstatus' = IF HttpGoOn(r.cont) THEN "reading" ELSE "stopped"
                 /\ stop_seen' = (stop_seen \/ ~r.cont)
                 /\ snap' = IF ~stop_seen /\ ~r.cont THEN r.st.resp ELSE snap
    /\ UNCHANGED notStreamVars
    /\ UNCHANGED <<dialect, sreturned>>

StreamDeliver == Deliver(Events(dialect))

\* tool-call deltas for the first and the last slot and for indexes on both
\* sides of the tables
SlotEvents ==
    { Payload("done"), [Payload("chunk") EXCEPT !.text = Some(Tok("x"))] }
    \cup { [Payload("chunk") EXCEPT !.tcs = <<tc>>] :
             tc \in { TcDelta(0, Some(Tok("a")), Some(Tok("shell")), Some(<<"{", "}">>)),
                      TcDelta(OAI_SLOTS - 1, Some(Tok("b")), Some(Tok("shell")), NULL),
                      TcDelta(OAI_SLOTS, Some(Tok("c")), Some(Tok("shell")), Some(<<"{", "}">>)),
                      TcDelta(-1, Some(Tok("d")), NULL, NULL),
                      TcDelta(-1, NULL, Some(Tok("shell")), Some(<<"{", "}">>)) } }

\* the same for a stream of the second dialect with these deltas
SlotDeliver == dialect = "B" /\ Deliver(SlotEvents)

\* http.c:290-293: the connection ends (mbedtls_ssl_read returns <= 0)
StreamClose ==
    /\ sstatus = "reading"
    /\ sstatus' = "closed"
    /\ UNCHANGED notStreamVars
    /\ UNCHANGED <<dialect, sst, slog, delivered, stop_seen, snap, sreturned>>

\* provider.c:304, provider_openai.c:351-362: the call returns
StreamFinish ==
    /\ sstatus \in {"stopped", "closed"}
    /\ sreturned' = StreamReturn(dialect, sst)
    /\ sstatus' = "returned"
    /\ UNCHANGED notStreamVars
    /\ UNCHANGED <<dialect, sst, slog, delivered, stop_seen, snap>>

StreamNext ==
    \/ StreamDeliver
    \/ StreamClose
    \/ StreamFinish


(***************************************************************************)
(* The length of a tool's output.                                          *)
(***************************************************************************)
\* tool_shell.c:10
MAX_OUTPUT == 128 * 1024
\* tool_file.c:11
MAX_FILE_READ == 512 * 1024

Min(a, b) == IF a < b THEN a ELSE b

RECURSIVE DecLen(_)
\* the characters %d and %zu print for n
DecLen(n) == IF n < 0 THEN 1 + DecLen(-n) ELSE IF n < 10 THEN 1 ELSE 1 + DecLen(n \div 10)

\* tool_shell.c:64-73: the read loop stops at MAX_OUTPUT - 1 bytes
ShellRead(printed) == Min(printed, MAX_OUTPUT - 1)

\* tool_shell.c:80-82: "[exit %d]\n%s" into a buffer of total + 64 bytes
ShellOutputLen(printed, exit_code) ==
    LET total == ShellRead(printed) IN
    Min(8 + DecLen(exit_code) + total, total + 64 - 1)

\* tool_file.c:61-69: the file, cut at MAX_FILE_READ bytes
FileReadLen(size) == Min(size, MAX_FILE_READ)

\* tool_file.c:110-112: "Wrote %zu bytes to %s" into buf[1280]
FileWriteLen(size, path_len) ==
    Min(6 + DecLen(size) + 10 + path_len, 1280 - 1)

\* tools.c:20-22: "Unknown tool: %s" into buf[256]
UnknownLen(name_len) == Min(14 + name_len, 256 - 1)

\* the sizes of command outputs and files
Sizes ==
    { n \in { k * SizeStep + d : k \in 0..MaxSizeSteps, d \in {-1, 0, 1} } : n >= 0 }

ToolInputs ==
    { [tool |-> "shell", size |-> n, exit_code |-> x, name_len |-> 5] :
        n \in Sizes, x \in {0, 1, 127, -1} }
    \cup { [tool |-> t, size |-> n, exit_code |-> 0, name_len |-> l] :
        t \in {"file_read", "file_write"}, n \in Sizes, l \in {1, 2000} }
    \cup { [tool |-> "nosuch", size |-> 0, exit_code |-> 0, name_len |-> l] :
        l \in {6, 300} }

\* no tool call is made (the other specifications)
ToolsOff ==
    /\ tool_in = [tool |-> "none", size |-> 0, exit_code |-> 0, name_len |-> 0]
    /\ tool_len = -1

\* tools.c:8: tool_execute is called
ToolsInit ==
    /\ tool_in \in ToolInputs
    /\ tool_len = -1

\* tools.c:11-12, tool_shell.c:13-88
ShellRun ==
    /\ tool_len = -1
    /\ tool_in.tool = "shell"
    /\ tool_len' = ShellOutputLen(tool_in.size, tool_in.exit_code)
    /\ UNCHANGED tool_in
    /\ UNCHANGED notToolVars

\* tools.c:13-14, tool_file.c:36-75
FileReadRun ==
    /\ tool_len = -1
    /\ tool_in.tool = "file_read"
    /\ tool_len' = FileReadLen(tool_in.size)
    /\ UNCHANGED tool_in
    /\ UNCHANGED notToolVars

\* tools.c:15-16, tool_file.c:77-119
FileWriteRun ==
    /\ tool_len = -1
    /\ tool_in.tool = "file_write"
    /\ tool_len' = FileWriteLen(tool_in.size, tool_in.name_len)
    /\ UNCHANGED tool_in
    /\ UNCHANGED notToolVars

\* tools.c:17-23
UnknownRun ==
    /\ tool_len = -1
    /\ tool_in.tool = "nosuch"
    /\ tool_len' = UnknownLen(tool_in.name_len)
    /\ UNCHANGED tool_in
    /\ UNCHANGED notToolVars


(***************************************************************************)
(* Failed provider calls (provider.c:130-158, 284-305 and their dialect-B  *)
(* counterparts): no connection, a body that does not parse, or an error   *)
(* envelope {"error": {"message": ...}}.                                   *)
(***************************************************************************)
Failures == {"transport", "unparsable", "envelope"}

\* the message of the error envelope
EnvelopeMessage == Tok("Overloaded")

\* provider.c:53-66, 149-154 and provider_openai.c:110-123, 205-210: the
\* non-streaming call
provider_chat_failed(d, f) ==
    CASE f = "transport" ->
           ChatResponse(Some(Tok(IF d = "A" THEN "Error: no response from API"
                                 ELSE "Error: no response from OpenAI API")), <<>>)
      [] f = "unparsable" ->
           ChatResponse(Some(Tok(IF d = "A" THEN "Error: failed to parse API response"
                                 ELSE "Error: failed to parse OpenAI API response")), <<>>)
      [] OTHER -> ChatResponse(Some(EnvelopeMessage), <<>>)

\* provider.c:297-304, provider_openai.c:344-362: the streaming call.  Without
\* a connection http_post_stream returns before any line is read
\* (http.c:231-235); a body that is no event stream has no line the callback
\* acts on.
provider_chat_stream_failed(d, f) ==
    IF f = "transport" THEN StreamReturn(d, StreamState0)
    ELSE StreamReturn(d, (CHOOSE r \in StreamCallback(d, StreamState0, Payload("garbage"), TRUE) :
                             TRUE).st)

\* main.c:73-99: the call agent_turn makes
FailedCall(d, stream, f) ==
    IF stream THEN provider_chat_stream_failed(d, f) ELSE provider_chat_failed(d, f)

\* main.c:67-105, 140-148: the provider call fails
ProviderCallFails ==
    /\ pc = "call"
    /\ turn < max_turns
    /\ odd + 1 <= MaxOdd
    /\ \E d \in {"A", "B"} : \E stream \in BOOLEAN : \E f \in Failures :
         LET r == FailedCall(d, stream, f)
             s == NoToolsSession(Session, r.text)
         IN  /\ resp' = r
             /\ failure' = f
             /\ last_text' = (IF r.text = NULL THEN last_text ELSE r.text)
             /\ messages' = s.messages
             /\ count' = s.count
             /\ final_text' = TextIfAny(r.text, final_text)
    /\ odd' = odd + 1
    /\ calls' = calls + 1
    /\ pc' = "save"
    /\ UNCHANGED notAgentVars
    /\ UNCHANGED <<session_file, turn, ti, tr, user_msgs, received, exec_log, saves>>

(***************************************************************************)
(* A front-end that uses session.c alone: any session_add_* calls, then    *)
(* session_save, then session_new on the same workspace and id, and so on  *)
(* with the session it got.  A text holds plain bytes, quotes, backslashes. *)
(***************************************************************************)
SessTexts == {Tok("a"), <<"\\", "\"", "b">>}
SessCalls ==
    {[id |-> Some(IdStr(1)), name |-> Some(Tok("shell")),
      input_json |-> Some(<<"{", "command:ok", "}">>)],
     [id |-> NULL, name |-> Some(Tok("shell")),
      input_json |-> Some(<<"{", " ", "command:ok", "path:x", "}">>)],
     [id |-> Some(IdStr(2)), name |-> NULL, input_json |-> Some(<<"{", "command:ok">>)],
     [id |-> Some(IdStr(2)), name |-> Some(Tok("nosuch")), input_json |-> NULL]}

SessInit ==
    /\ op = "new"
    /\ nops = 0
    /\ reloaded = session_new(workspace, session_id, disk)

SessAddUser ==
    /\ nops < MaxOps
    /\ \E text \in SessTexts :
         LET s == session_add_user(Session, text) IN
         /\ messages' = s.messages
         /\ count' = s.count
    /\ op' = "add_user"
    /\ nops' = nops + 1
    /\ UNCHANGED <<disk, reloaded>>
    /\ UNCHANGED notSessVars

SessAddAssistant ==
    /\ nops < MaxOps
    /\ \E text \in SessTexts :
         LET s == session_add_assistant(Session, text) IN
         /\ messages' = s.messages
         /\ count' = s.count
    /\ op' = "add_assistant"
    /\ nops' = nops + 1
    /\ UNCHANGED <<disk, reloaded>>
    /\ UNCHANGED notSessVars

SessAddToolUse ==
    /\ nops < MaxOps
    /\ \E c \in SessCalls :
         LET s == session_add_tool_use(Session, c.id, c.name, c.input_json) IN
         /\ messages' = s.messages
         /\ count' = s.count
    /\ op' = "add_tool_use"
    /\ nops' = nops + 1
    /\ UNCHANGED <<disk, reloaded>>
    /\ UNCHANGED notSessVars

SessAddToolResult ==
    /\ nops < MaxOps
    /\ \E id \in {NULL, Some(IdStr(1))} :
         LET s == session_add_tool_result(Session, id, Tok("[exit 0]")) IN
         /\ messages' = s.messages
         /\ count' = s.count
    /\ op' = "add_tool_result"
    /\ nops' = nops + 1
    /\ UNCHANGED <<disk, reloaded>>
    /\ UNCHANGED notSessVars

\* session_save(s)
SessSave ==
    /\ op # "save"
    /\ disk' = session_save(messages, session_file, disk)
    /\ op' = "save"
    /\ UNCHANGED <<messages, count, nops, reloaded>>
    /\ UNCHANGED notSessVars

\* session_new(workspace, id) right after the save
SessNew ==
    /\ op = "save"
    /\ reloaded' = session_new(workspace, session_id, disk)
    /\ op' = "new"
    /\ UNCHANGED <<messages, count, nops, disk>>
    /\ UNCHANGED notSessVars

\* session_free of the old session: the front-end goes on with the new one
SessFree ==
    /\ op = "new"
    /\ Session # reloaded
    /\ messages' = reloaded.messages
    /\ count' = reloaded.count
    /\ op' = "free"
    /\ UNCHANGED <<nops, disk, reloaded>>
    /\ UNCHANGED notSessVars

SessNext ==
    \/ SessAddUser
    \/ SessAddAssistant
    \/ SessAddToolUse
    \/ SessAddToolResult
    \/ SessSave
    \/ SessNew
    \/ SessFree

(***************************************************************************)
(* cron.c.  An expression is five fields, a field a string of characters.  *)
(* The wall clock counts the seconds of one day of local time, so that     *)
(* now % 60 is the second of the minute as it is for time_t.               *)
(***************************************************************************)
Digits == <<"0", "1", "2", "3", "4", "5", "6", "7", "8", "9">>
IsDigit(c) == \E d \in 1..10 : Digits[d] = c
DigitVal(c) == (CHOOSE d \in 1..10 : Digits[d] = c) - 1

RECURSIVE AtoiFrom(_, _)
\* the leading digits of s as a number, 0 without any
AtoiFrom(s, acc) ==
    IF s = <<>> \/ ~IsDigit(Head(s)) THEN acc
    ELSE AtoiFrom(Tail(s), acc * 10 + DigitVal(Head(s)))
\* atoi of a token: a sign if there is one, then the leading digits
atoi(s) ==
    IF s # <<>> /\ Head(s) = "-" THEN -AtoiFrom(Tail(s), 0)
    ELSE IF s # <<>> /\ Head(s) = "+" THEN AtoiFrom(Tail(s), 0)
    ELSE AtoiFrom(s, 0)

\* a + b in an int of 32 bits, for a and b above 0
IntAdd(a, b) ==
    IF b > 2147483647 - a THEN ((a - 2147483647) + (b - 2147483647)) - 2
    ELSE a + b

\* cron.c:21-35
parse_field(field) ==
    IF field = <<>> THEN atoi(field)
    ELSE IF field[1] = "*"
         THEN IF Len(field) >= 2 /\ field[2] = "/"
              THEN LET step == atoi(SubSeq(field, 3, Len(field))) IN
                   IF step <= 0 THEN -1 ELSE -IntAdd(100, step)
              ELSE -1
    ELSE atoi(field)

\* cron.c:37-62, for an expression of five fields
cron_parse(fields) ==
    [minute |-> parse_field(fields[1]),
     hour |-> parse_field(fields[2]),
     mday |-> parse_field(fields[3]),
     month |-> parse_field(fields[4]),
     wday |-> parse_field(fields[5])]

\* cron.c:65-73
field_matches(field_val, time_val) ==
    IF field_val = -1 THEN TRUE
    ELSE IF field_val < -100 THEN time_val % (-(field_val + 100)) = 0
    ELSE field_val = time_val

\* cron.c:75-81
cron_matches(expr, t) ==
    /\ field_matches(expr.minute, t.tm_min)
    /\ field_matches(expr.hour, t.tm_hour)
    /\ field_matches(expr.mday, t.tm_mday)
    /\ field_matches(expr.month, t.tm_mon + 1)
    /\ field_matches(expr.wday, t.tm_wday)

\* localtime on the day of the model, Friday 6 November
localtime(t) ==
    [tm_min |-> (t \div 60) % 60, tm_hour |-> (t \div 3600) % 24,
     tm_mday |-> 6, tm_mon |-> 10, tm_wday |-> 5]

\* mutant: a job is never taken as run in this minute
RanThisMinute_never(last_run, t) == FALSE
\* cron.c:131-132: `last_run >= minute_start`
RanThisMinute(last_run, t) == last_run >= t - (t % 60)

\* the job cron_add makes of an expression (cron.c:90-104)
NewJob(fields) == [expr |-> cron_parse(fields), last_run |-> 0, active |-> TRUE]

Star == <<"*">>
EveryMinute == <<Star, Star, Star, Star, Star>>
EveryFive == <<<<"*", "/", "5">>, Star, Star, Star, Star>>
Expressions == {EveryMinute, EveryFive}

\* seconds of the sleep loop (cron.c:142-144)
SleepSeconds == 30
\* 12:04:00, when the model starts to watch
WatchStart == (12 * 60 + 4) * 60
WatchEnd == WatchStart + MaxMinutes * 60
\* seconds into 12:04 at which cron_run starts
StartSeconds == {0, 20, 45}
\* seconds a callback takes: at once, or longer than a minute
Durations == {0, 70}

CronOff ==
    /\ jobs = <<>>
    /\ clock = 0
    /\ now = 0
    /\ tm = localtime(0)
    /\ job_i = 0
    /\ cron_pc = "off"
    /\ fired = <<>>
    /\ slow = 0

\* two cron_add calls, then cron_run starts
CronInit ==
    /\ \E e1 \in Expressions, e2 \in Expressions : jobs = <<NewJob(e1), NewJob(e2)>>
    /\ clock \in {WatchStart + s : s \in StartSeconds}
    /\ now = 0
    /\ tm = localtime(0)
    /\ job_i = 0
    /\ cron_pc = "pass"
    /\ fired = <<<<>>, <<>>>>
    /\ slow = 0

\* cron.c:122-126: a pass begins, the time is read once
CronPass ==
    /\ cron_pc = "pass"
    /\ clock < WatchEnd
    /\ now' = clock
    /\ tm' = localtime(clock)
    /\ job_i' = 1
    /\ cron_pc' = "jobs"
    /\ UNCHANGED <<jobs, clock, fired, slow>>
    /\ UNCHANGED notCronVars

\* cron.c:127-134: the job is inactive, ran in this minute, or does not match
CronSkip ==
    /\ cron_pc = "jobs"
    /\ job_i <= Len(jobs)
    /\ \/ ~jobs[job_i].active
       \/ RanThisMinute(jobs[job_i].last_run, now)
       \/ ~cron_matches(jobs[job_i].expr, tm)
    /\ job_i' = job_i + 1
    /\ UNCHANGED <<jobs, clock, now, tm, cron_pc, fired, slow>>
    /\ UNCHANGED notCronVars

\* cron.c:134-138: the job fires; its callback takes d seconds
CronFire ==
    /\ cron_pc = "jobs"
    /\ job_i <= Len(jobs)
    /\ jobs[job_i].active
    /\ ~RanThisMinute(jobs[job_i].last_run, now)
    /\ cron_matches(jobs[job_i].expr, tm)
    /\ jobs' = [jobs EXCEPT ![job_i].last_run = now]
    /\ fired' = [fired EXCEPT ![job_i] = Append(@, clock \div 60)]
    /\ \E d \in Durations :
         /\ d >= 60 => slow < MaxSlow
         /\ slow' = IF d >= 60 THEN slow + 1 ELSE slow
         /\ clock' = clock + d
    /\ job_i' = job_i + 1
    /\ UNCHANGED <<now, tm, cron_pc>>
    /\ UNCHANGED notCronVars

\* cron.c:141-144: thirty sleep(1) calls, then the next pass
CronSleep ==
    /\ cron_pc = "jobs"
    /\ job_i > Len(jobs)
    /\ \E j \in 0..MaxJitter : clock' = clock + SleepSeconds + j
    /\ cron_pc' = "pass"
    /\ UNCHANGED <<jobs, now, tm, job_i, fired, slow>>
    /\ UNCHANGED notCronVars

CronNext ==
    \/ CronPass
    \/ CronSkip
    \/ CronFire
    \/ CronSleep

(***************************************************************************)
(* Registration (cron.c:37-116) beside cron_run (cron.c:118-148).  The     *)
(* two threads share the scheduler without a lock; every read and write of *)
(* a field is one step here, in program order.  An expression text is a    *)
(* string of characters.                                                   *)
(***************************************************************************)
CRON_MAX_JOBS == 64

RECURSIVE strtok_all(_, _)
\* the tokens strtok(buf, " \t") yields one after the other
strtok_all(s, word) ==
    IF s = <<>> THEN (IF word = <<>> THEN <<>> ELSE <<word>>)
    ELSE IF Head(s) \in {" ", "\t"}
         THEN (IF word = <<>> THEN <<>> ELSE <<word>>) \o strtok_all(Tail(s), <<>>)
    ELSE strtok_all(Tail(s), Append(word, Head(s)))

\* strncpy(dst, src, n) into a zeroed buffer
strncpy(src, n) == SubSeq(src, 1, Min(Len(src), n))

ZeroExpr == [minute |-> 0, hour |-> 0, mday |-> 0, month |-> 0, wday |-> 0]

\* cron_parse on the text (cron.c:37-62): the loop keeps the first five tokens
cron_parse_text(expr_str) ==
    LET all == strtok_all(strncpy(expr_str, 128 - 1), <<>>)
        fields == SubSeq(all, 1, Min(Len(all), 5))
    IN  IF Len(fields) # 5 THEN [rc |-> -1, expr |-> ZeroExpr]
        ELSE [rc |-> 0, expr |-> cron_parse(fields)]

\* a slot after cron_init's memset
ZeroJob == [name |-> <<>>, expr |-> ZeroExpr, fn |-> 0, userdata |-> 0,
            last_run |-> 0, active |-> FALSE]

\* the k-th job there is: its name, callback and userdata
JobName(k) == IdStr(k)
\* what a registration stands for
Registration(slot) ==
    [name |-> slot.name, expr |-> slot.expr, fn |-> slot.fn, userdata |-> slot.userdata]

FiveFields == <<"*", "/", "5", " ", "*", "\t", "*", " ", " ", "*", " ", "*">>
FourFields == <<"*", " ", "*", " ", "*", " ", "*">>
SixFields == <<"*", " ", "*", " ", "*", " ", "*", " ", "*", " ", "*">>
RegExprs == {FiveFields, FourFields, SixFields}

\* a job registered before the model starts to watch
OldJob(k) ==
    [name |-> JobName(k), expr |-> cron_parse_text(FiveFields).expr, fn |-> k,
     userdata |-> k, last_run |-> 0, active |-> TRUE]

NoAdd == [name |-> <<>>, expr_str |-> <<>>, fn |-> 0, count |-> 0, ret |-> -2]
NoStart == [name |-> <<>>, expr |-> ZeroExpr, fn |-> 0, userdata |-> 0, late |-> FALSE]

NoRemove == [name |-> <<>>, ret |-> FALSE, op |-> 0]

RegOff ==
    /\ table = <<>>
    /\ sched_count = 0
    /\ reg_pc = "off"
    /\ reg_arg = NoAdd
    /\ reg_ops = 0
    /\ last_add = NoAdd
    /\ added = {}
    /\ removed = {}
    /\ run_pc = "off"
    /\ run_i = 0
    /\ run_now = 0
    /\ passes = 0
    /\ last_start = NoStart
    /\ last_remove = NoRemove

\* cron_init, then either cron_run starts on the empty table, or one job has
\* been registered and removed again, or the table is one short of full;
\* in the last two cron_run is not started yet
RegInit ==
    /\ \E n \in {0, 1, CRON_MAX_JOBS - 1} :
         /\ table = [k \in 1..CRON_MAX_JOBS |->
                        IF k > n THEN ZeroJob
                        ELSE IF n = 1 THEN [OldJob(k) EXCEPT !.active = FALSE]
                        ELSE OldJob(k)]
         /\ sched_count = n
         /\ added = {Registration(OldJob(k)) : k \in 1..n}
         /\ removed = IF n = 1 THEN {1} ELSE {}
         /\ run_pc = IF n = 0 THEN "pass" ELSE "off"
    /\ reg_pc = "idle"
    /\ reg_arg = NoAdd
    /\ reg_ops = 0
    /\ last_add = NoAdd
    /\ run_i = 0
    /\ run_now = WatchStart
    /\ passes = 0
    /\ last_start = NoStart
    /\ last_remove = NoRemove

\* cron.c:85-91: the table is full, or the name goes into the next free slot;
\* the name is a new one or the name of a job that has been removed
CronAddBegin ==
    /\ reg_pc = "idle"
    /\ reg_ops < MaxRegOps
    /\ reg_ops' = reg_ops + 1
    /\ \E expr_str \in RegExprs,
          name \in {JobName(CRON_MAX_JOBS + reg_ops + 1)} \cup {table[i].name : i \in removed} :
         LET k == CRON_MAX_JOBS + reg_ops + 1
             arg == [name |-> name, expr_str |-> expr_str, fn |-> k,
                     count |-> sched_count, ret |-> -2]
         IN  IF sched_count >= CRON_MAX_JOBS
             THEN /\ last_add' = [arg EXCEPT !.ret = -1]
                  /\ UNCHANGED <<table, reg_pc, reg_arg>>
             ELSE /\ table' = [table EXCEPT ![sched_count + 1].name =
                                                strncpy(arg.name, 64 - 1)]
                  /\ reg_arg' = arg
                  /\ reg_pc' = "add_parse"
                  /\ UNCHANGED last_add
    /\ UNCHANGED <<sched_count, added, removed, run_pc, run_i, run_now, passes,
                   last_start, last_remove>>
    /\ UNCHANGED notRegVars

\* a cron_add that counts the slot although the expression was refused
cron_add_counting(job, cnt, arg) ==
    LET r == cron_parse_text(arg.expr_str) IN
    IF r.rc # 0 THEN [job |-> job, count |-> cnt + 1, ret |-> -1]
    ELSE [job |-> [job EXCEPT !.expr = r.expr, !.fn = arg.fn, !.userdata = arg.fn,
                              !.last_run = 0, !.active = TRUE],
          count |-> cnt + 1, ret |-> cnt]

\* cron.c:93-104 on the slot the name went into: the slot, the count and the
\* value returned
cron_add(job, cnt, arg) ==
    LET r == cron_parse_text(arg.expr_str) IN
    IF r.rc # 0 THEN [job |-> job, count |-> cnt, ret |-> -1]
    ELSE [job |-> [job EXCEPT !.expr = r.expr, !.fn = arg.fn, !.userdata = arg.fn,
                              !.last_run = 0, !.active = TRUE],
          count |-> cnt + 1, ret |-> cnt]

\* cron.c:93-104: the expression is parsed; the slot is filled and counted
CronAddEnd ==
    /\ reg_pc = "add_parse"
    /\ LET i == reg_arg.count + 1
           r == cron_add(table[i], sched_count, reg_arg)
       IN  /\ table' = [table EXCEPT ![i] = r.job]
           /\ sched_count' = r.count
           /\ added' = IF r.ret < 0 THEN added ELSE added \cup {Registration(r.job)}
           /\ last_add' = [reg_arg EXCEPT !.ret = r.ret]
    /\ reg_pc' = "idle"
    /\ UNCHANGED <<reg_arg, reg_ops, removed, run_pc, run_i, run_now, passes, last_start, last_remove>>
    /\ UNCHANGED notRegVars

\* cron.c:107-116, for a job this thread has added, a job that has been
\* removed, or a name there is not
CronRemove ==
    /\ reg_pc = "idle"
    /\ reg_ops < MaxRegOps
    /\ reg_ops' = reg_ops + 1
    /\ \E name \in {JobName(CRON_MAX_JOBS + k) : k \in 0..reg_ops}
                   \cup {table[i].name : i \in removed} :
         LET hits == {i \in 1..sched_count : table[i].name = name} IN
         /\ last_remove' = [name |-> name, ret |-> hits # {}, op |-> reg_ops + 1]
         /\ IF hits = {}
            THEN UNCHANGED <<table, removed>>
            ELSE LET i == CHOOSE h \in hits : \A g \in hits : h <= g IN
                 /\ table' = [table EXCEPT ![i].active = FALSE]
                 /\ removed' = removed \cup {i}
    /\ UNCHANGED <<sched_count, reg_pc, reg_arg, last_add, added, run_pc, run_i,
                   run_now, passes, last_start>>
    /\ UNCHANGED notRegVars

\* cron.c:122-126
RunPass ==
    /\ run_pc = "pass"
    /\ passes < MaxPasses
    /\ passes' = passes + 1
    /\ run_now' = run_now + 60
    /\ run_i' = 1
    /\ run_pc' = "jobs"
    /\ UNCHANGED <<table, sched_count, reg_pc, reg_arg, reg_ops, last_add, added,
                   removed, last_start, last_remove>>
    /\ UNCHANGED notRegVars

\* cron.c:126-134: the job does not fire
RunSkip ==
    /\ run_pc = "jobs"
    /\ run_i <= sched_count
    /\ \/ ~table[run_i].active
       \/ RanThisMinute(table[run_i].last_run, run_now)
       \/ ~cron_matches(table[run_i].expr, localtime(run_now))
    /\ run_i' = run_i + 1
    /\ UNCHANGED <<table, sched_count, reg_pc, reg_arg, reg_ops, last_add, added,
                   removed, run_pc, run_now, passes, last_start, last_remove>>
    /\ UNCHANGED notRegVars

\* cron.c:126-135: the job is active and due
RunDue ==
    /\ run_pc = "jobs"
    /\ run_i <= sched_count
    /\ table[run_i].active
    /\ ~RanThisMinute(table[run_i].last_run, run_now)
    /\ cron_matches(table[run_i].expr, localtime(run_now))
    /\ run_pc' = "fire"
    /\ UNCHANGED <<table, sched_count, reg_pc, reg_arg, reg_ops, last_add, added,
                   removed, run_i, run_now, passes, last_start, last_remove>>
    /\ UNCHANGED notRegVars

\* cron.c:136-137: last_run is set and the callback starts
RunFire ==
    /\ run_pc = "fire"
    /\ table' = [table EXCEPT ![run_i].last_run = run_now]
    /\ last_start' = [name |-> table[run_i].name, expr |-> table[run_i].expr,
                      fn |-> table[run_i].fn, userdata |-> table[run_i].userdata,
                      late |-> run_i \in removed]
    /\ run_i' = run_i + 1
    /\ run_pc' = "jobs"
    /\ UNCHANGED <<sched_count, reg_pc, reg_arg, reg_ops, last_add, added, removed,
                   run_now, passes, last_remove>>
    /\ UNCHANGED notRegVars

\* cron.c:126, 141-144: the job loop is over
RunSleep ==
    /\ run_pc = "jobs"
    /\ run_i > sched_count
    /\ run_pc' = "pass"
    /\ UNCHANGED <<table, sched_count, reg_pc, reg_arg, reg_ops, last_add, added,
                   removed, run_i, run_now, passes, last_start, last_remove>>
    /\ UNCHANGED notRegVars

RegNext ==
    \/ CronAddBegin
    \/ CronAddEnd
    \/ CronRemove
    \/ RunPass
    \/ RunSkip
    \/ RunDue
    \/ RunFire
    \/ RunSleep

(***************************************************************************)
(* cron_parse and cron_matches (cron.c:21-81) on one expression and one    *)
(* local time.                                                             *)
(***************************************************************************)
\* fields the grammar has, by their place in the expression
MinuteFields ==
    {Star, <<"*", "/", "5">>, <<"0">>, <<"5", "9">>,
     <<"*", "/", "2", "1", "4", "7", "4", "8", "3", "6", "4", "7">>}
HourFields == {Star, <<"1", "2">>, <<"*", "/", "2">>}
MdayFields == {Star, <<"6">>}
MonthFields == {Star, <<"1", "1">>}
WdayFields == {Star, <<"5">>, <<"0">>}

\* fields it has not: a step of 0, a range, a list, a name, numbers below 0
\* and out of every range, and a star with something behind it
OddFields ==
    {<<"*", "/", "0">>, <<"1", "-", "5">>, <<"1", ",", "2">>, <<"M", "O", "N">>,
     <<"-", "1">>, <<"-", "1", "0", "5">>, <<"9", "9">>, <<"*", "5">>}

\* the texts handed to cron_parse: expressions of fields of the grammar,
\* expressions with one other field, and one of four fields
ParseTexts ==
    {JoinWith(<<a, b, c, d, w>>, <<" ">>) :
        a \in MinuteFields, b \in HourFields, c \in MdayFields, d \in MonthFields,
        w \in WdayFields}
    \cup {JoinWith([k \in 1..5 |-> IF k = q THEN f ELSE Star], <<" ">>) :
              q \in 1..5, f \in OddFields}
    \cup {FourFields}

\* local times: Friday 6 November 12:00 and 12:05, Sunday 8 November 0:59,
\* Sunday 1 November 0:00, Thursday 31 December 12:00
LocalTimes ==
    {[tm_min |-> 0, tm_hour |-> 12, tm_mday |-> 6, tm_mon |-> 10, tm_wday |-> 5],
     [tm_min |-> 5, tm_hour |-> 12, tm_mday |-> 6, tm_mon |-> 10, tm_wday |-> 5],
     [tm_min |-> 59, tm_hour |-> 0, tm_mday |-> 8, tm_mon |-> 10, tm_wday |-> 0],
     [tm_min |-> 0, tm_hour |-> 0, tm_mday |-> 1, tm_mon |-> 10, tm_wday |-> 0],
     [tm_min |-> 0, tm_hour |-> 12, tm_mday |-> 31, tm_mon |-> 11, tm_wday |-> 4]}

NoTime == [tm_min |-> 0, tm_hour |-> 0, tm_mday |-> 0, tm_mon |-> 0, tm_wday |-> 0]

ParseOff ==
    /\ px_text = <<>>
    /\ px_rc = 0
    /\ px_expr = ZeroExpr
    /\ px_tm = NoTime
    /\ px_match = FALSE
    /\ px_pc = "off"

ParseInit ==
    /\ px_text \in ParseTexts
    /\ px_rc = 0
    /\ px_expr = ZeroExpr
    /\ px_tm = NoTime
    /\ px_match = FALSE
    /\ px_pc = "input"

\* cron.c:37-62: cron_parse(expr_str, &expr)
ParseCall ==
    /\ px_pc = "input"
    /\ px_rc' = cron_parse_text(px_text).rc
    /\ px_expr' = cron_parse_text(px_text).expr
    /\ px_pc' = "parsed"
    /\ UNCHANGED <<px_text, px_tm, px_match>>
    /\ UNCHANGED notParseVars

\* cron.c:75-81: cron_matches(&expr, &tm) on what cron_parse has filled
MatchCall ==
    /\ px_pc = "parsed"
    /\ px_rc = 0
    /\ \E t \in LocalTimes :
         /\ px_tm' = t
         /\ px_match' = cron_matches(px_expr, t)
    /\ px_pc' = "matched"
    /\ UNCHANGED <<px_text, px_rc, px_expr>>
    /\ UNCHANGED notParseVars

ParseNext ==
    \/ ParseCall
    \/ MatchCall

(***************************************************************************)
(* WebSocket (ws.c).  Bytes are numbers 0..255; the text of the handshake  *)
(* is a string of tokens, with the key and the magic string spelled out    *)
(* character by character.                                                 *)
(***************************************************************************)
\* the printable characters in the order of their codes, from 32 on
AsciiChars ==
    <<" ", "!", "\"", "#", "$", "%", "&", "'", "(", ")", "*", "+", ",", "-", ".", "/",
      "0", "1", "2", "3", "4", "5", "6", "7", "8", "9", ":", ";", "<", "=", ">", "?",
      "@", "A", "B", "C", "D", "E", "F", "G", "H", "I", "J", "K", "L", "M", "N", "O",
      "P", "Q", "R", "S", "T", "U", "V", "W", "X", "Y", "Z", "[", "\\", "]", "^", "_",
      "grave", "a", "b", "c", "d", "e", "f", "g", "h", "i", "j", "k", "l", "m", "n", "o",
      "p", "q", "r", "s", "t", "u", "v", "w", "x", "y", "z", "{", "|", "}", "~">>

\* the byte of a character
Ascii(c) == 31 + (CHOOSE i \in 1..Len(AsciiChars) : AsciiChars[i] = c)

\* the bytes of a string of characters
BytesOf(s) == [i \in 1..Len(s) |-> Ascii(s[i])]

\* a 32-bit word is its 32 bits, the highest first
RECURSIVE Pow2(_)
Pow2(n) == IF n = 0 THEN 1 ELSE 2 * Pow2(n - 1)
BitsOf(n, w) == SubSeq([i \in 1..w |-> (n \div Pow2(w - i)) % 2], 1, w)
RECURSIVE IntOf(_)
IntOf(bits) == IF bits = <<>> THEN 0 ELSE 2 * IntOf(SubSeq(bits, 1, Len(bits) - 1)) + bits[Len(bits)]
Word(hi, lo) == BitsOf(hi, 16) \o BitsOf(lo, 16)
WordXor(a, b) == SubSeq([i \in 1..32 |-> (a[i] + b[i]) % 2], 1, 32)
WordAnd(a, b) == SubSeq([i \in 1..32 |-> a[i] * b[i]], 1, 32)
WordOr(a, b) == SubSeq([i \in 1..32 |-> IF a[i] + b[i] > 0 THEN 1 ELSE 0], 1, 32)
WordNot(a) == SubSeq([i \in 1..32 |-> 1 - a[i]], 1, 32)
RotL(a, n) == SubSeq([i \in 1..32 |-> a[((i - 1 + n) % 32) + 1]], 1, 32)
\* addition modulo 2^32, in halves of 16 bits
WordAdd(a, b) ==
    LET lo == IntOf(SubSeq(a, 17, 32)) + IntOf(SubSeq(b, 17, 32))
        hi == IntOf(SubSeq(a, 1, 16)) + IntOf(SubSeq(b, 1, 16)) + (lo \div 65536)
    IN  Word(hi % 65536, lo % 65536)

\* the message with the padding of SHA-1: a 1 bit, zeros, the length in bits
Sha1Padded(bytes) ==
    LET n == Len(bytes)
        zeros == (119 - (n % 64)) % 64
    IN  bytes \o <<128>> \o SubSeq([i \in 1..64 |-> 0], 1, zeros) \o <<0, 0, 0, 0>>
        \o <<((n * 8) \div 16777216) % 256, ((n * 8) \div 65536) % 256,
             ((n * 8) \div 256) % 256, (n * 8) % 256>>

RECURSIVE Sha1Schedule(_)
\* the 80 words of a block's message schedule, from its first 16
Sha1Schedule(w) ==
    IF Len(w) = 80 THEN w
    ELSE LET t == Len(w) + 1 IN
         Sha1Schedule(Append(w, RotL(WordXor(WordXor(w[t - 3], w[t - 8]),
                                             WordXor(w[t - 14], w[t - 16])), 1)))

Sha1F(t, b, c, d) ==
    IF t < 20 THEN WordOr(WordAnd(b, c), WordAnd(WordNot(b), d))
    ELSE IF t < 40 THEN WordXor(WordXor(b, c), d)
    ELSE IF t < 60 THEN WordOr(WordOr(WordAnd(b, c), WordAnd(b, d)), WordAnd(c, d))
    ELSE WordXor(WordXor(b, c), d)

Sha1K(t) ==
    IF t < 20 THEN Word(23170, 31129)
    ELSE IF t < 40 THEN Word(28377, 60321)
    ELSE IF t < 60 THEN Word(36635, 48348)
    ELSE Word(51810, 49622)

RECURSIVE Sha1Rounds(_, _, _)
\* the 80 rounds on the working words <<a, b, c, d, e>>
Sha1Rounds(v, w, t) ==
    \* (the test of v has every round's words computed before the next round)
    IF t = 80 \/ Len(v) # 5 THEN v
    ELSE LET temp == WordAdd(WordAdd(WordAdd(RotL(v[1], 5), Sha1F(t, v[2], v[3], v[4])),
                                     WordAdd(v[5], Sha1K(t))), w[t + 1])
         IN  Sha1Rounds(<<temp, v[1], RotL(v[2], 30), v[3], v[4]>>, w, t + 1)

RECURSIVE Sha1Blocks(_, _)
\* the blocks of 64 bytes one after the other, from the hash so far
Sha1Blocks(h, bytes) ==
    IF bytes = <<>> \/ Len(h) # 5 THEN h
    ELSE LET w16 == [j \in 1..16 |->
                        Word(bytes[4 * j - 3] * 256 + bytes[4 * j - 2],
                             bytes[4 * j - 1] * 256 + bytes[4 * j])]
             v == Sha1Rounds(h, Sha1Schedule(w16), 0)
         IN  Sha1Blocks([i \in 1..5 |-> WordAdd(h[i], v[i])], SubSeq(bytes, 65, Len(bytes)))

\* SHA-1 of a byte string: its 20 bytes
sha1(bytes) ==
    LET h == Sha1Blocks(<<Word(26437, 8961), Word(61389, 43913), Word(39098, 56574),
                          Word(4146, 21622), Word(50130, 57840)>>, Sha1Padded(bytes))
    IN  [i \in 1..20 |-> IntOf(SubSeq(h[((i - 1) \div 4) + 1],
                                      8 * ((i - 1) % 4) + 1, 8 * ((i - 1) % 4) + 8))]

b64_table ==
    <<"A", "B", "C", "D", "E", "F", "G", "H", "I", "J", "K", "L", "M", "N", "O", "P",
      "Q", "R", "S", "T", "U", "V", "W", "X", "Y", "Z", "a", "b", "c", "d", "e", "f",
      "g", "h", "i", "j", "k", "l", "m", "n", "o", "p", "q", "r", "s", "t", "u", "v",
      "w", "x", "y", "z", "0", "1", "2", "3", "4", "5", "6", "7", "8", "9", "+", "/">>

RECURSIVE base64_encode(_)
\* ws.c:30-50
base64_encode(in) ==
    IF in = <<>> THEN <<>>
    ELSE LET a == in[1]
             b == IF Len(in) > 1 THEN in[2] ELSE 0
             c == IF Len(in) > 2 THEN in[3] ELSE 0
         IN  <<b64_table[(a \div 4) + 1],
               b64_table[((a % 4) * 16 + (b \div 16)) + 1],
               IF Len(in) > 1 THEN b64_table[((b % 16) * 4 + (c \div 64)) + 1] ELSE "=",
               IF Len(in) > 2 THEN b64_table[(c % 64) + 1] ELSE "=">>
             \o base64_encode(SubSeq(in, 4, Len(in)))

\* the exclusive or of two bytes
ByteXor(a, b) ==
    LET x == BitsOf(a, 8)
        y == BitsOf(b, 8)
    IN  IntOf(SubSeq([i \in 1..8 |-> (x[i] + y[i]) % 2], 1, 8))

WS_OP_TEXT == 1
WS_OP_BINARY == 2
WS_OP_CLOSE == 8
WS_OP_PING == 9
WS_OP_PONG == 10

\* len >> k for a length below 2^31
ShiftRight(len, k) == IF k >= 31 THEN 0 ELSE len \div Pow2(k)

\* a writer that keeps the 7-bit form for a length of 126 too
ws_write_frame_short(opcode, data) ==
    LET len == Len(data)
        b == opcode % 256
        hdr0 == IF b >= 128 THEN b ELSE 128 + b
        hdr == IF len <= 126 THEN <<hdr0, len>>
               ELSE IF len < 65536 THEN <<hdr0, 126, ShiftRight(len, 8) % 256, len % 256>>
               ELSE <<hdr0, 127>> \o
                    SubSeq([i \in 1..8 |-> ShiftRight(len, 56 - (i - 1) * 8) % 256], 1, 8)
    IN  hdr \o data

\* ws_write_frame (ws.c:196-220): the bytes written, header and payload
ws_write_frame(opcode, data) ==
    LET len == Len(data)
        b == opcode % 256
        hdr0 == IF b >= 128 THEN b ELSE 128 + b
        hdr == IF len < 126 THEN <<hdr0, len>>
               ELSE IF len < 65536 THEN <<hdr0, 126, ShiftRight(len, 8) % 256, len % 256>>
               ELSE <<hdr0, 127>> \o
                    SubSeq([i \in 1..8 |-> ShiftRight(len, 56 - (i - 1) * 8) % 256], 1, 8)
    IN  hdr \o data

\* what ws_read_frame leaves when it returns -1
NoFrame == [rc |-> -1, fin |-> FALSE, opcode |-> 0, payload |-> <<>>, payload_len |-> 0]

\* ws_read_frame (ws.c:149-194) on the bytes that arrive before the peer
\* falls silent; a read that gets fewer bytes than it asked for fails
ws_read_frame(bytes) ==
    IF Len(bytes) < 2 THEN NoFrame
    ELSE
    LET hdr0 == bytes[1]
        hdr1 == bytes[2]
        masked == hdr1 >= 128
        len7 == hdr1 % 128
        next == IF len7 = 126 THEN 2 ELSE IF len7 = 127 THEN 8 ELSE 0
        ext == SubSeq(bytes, 3, Min(2 + next, Len(bytes)))
        \* a 64-bit length of 2^31 or more: no stream of the model is that long
        huge == len7 = 127 /\ Len(ext) = 8 /\ (\E i \in 1..4 : ext[i] # 0 \/ ext[5] >= 128)
        payload_len == IF len7 = 126 /\ Len(ext) = 2 THEN ext[1] * 256 + ext[2]
                       ELSE IF len7 = 127 /\ Len(ext) = 8 /\ ~huge
                            THEN ((ext[5] * 256 + ext[6]) * 256 + ext[7]) * 256 + ext[8]
                       ELSE len7
        nmask == IF masked THEN 4 ELSE 0
        mask == SubSeq(bytes, 3 + next, Min(2 + next + nmask, Len(bytes)))
        start == 2 + next + nmask
    IN  IF Len(ext) # next \/ huge \/ Len(mask) # nmask \/ Len(bytes) < start + payload_len
        THEN NoFrame
        ELSE [rc |-> 0, fin |-> hdr0 >= 128, opcode |-> hdr0 % 16,
              payload |-> IF masked
                          THEN SubSeq([i \in 1..payload_len |->
                                          ByteXor(bytes[start + i], mask[((i - 1) % 4) + 1])],
                                      1, payload_len)
                          ELSE SubSeq(bytes, start + 1, start + payload_len),
              payload_len |-> payload_len]

\* the frame a client sends: masked with its key, lengths in network order
client_frame(opcode, data, key) ==
    LET len == Len(data) IN
    <<128 + opcode>>
    \o (IF len < 126 THEN <<128 + len>>
        ELSE IF len < 65536 THEN <<128 + 126, len \div 256, len % 256>>
        ELSE <<128 + 127, 0, 0, 0, 0, len \div 16777216, (len \div 65536) % 256,
               (len \div 256) % 256, len % 256>>)
    \o key
    \o SubSeq([i \in 1..len |-> ByteXor(data[i], key[((i - 1) % 4) + 1])], 1, len)

\* a payload of n bytes
FramePayload(n, seed) == SubSeq([i \in 1..n |-> (seed + 37 * i) % 256], 1, n)

\* the frames the codec is watched on: every opcode with the lengths around
\* the 7-bit form's limit, sent by the server or by a client under a masking
\* key, and the lengths around the 16-bit form's limit from the server
FrameInputs ==
    {[op |-> o, data |-> FramePayload(n, sd), mask |-> m] :
        o \in {WS_OP_TEXT, WS_OP_BINARY, WS_OP_CLOSE, WS_OP_PING, WS_OP_PONG},
        n \in {0, 1, 5, 125, 126, 127}, sd \in {0, 201},
        m \in {NULL, Some(<<0, 0, 0, 0>>), Some(<<55, 250, 33, 61>>), Some(<<255, 1, 128, 64>>)}}
    \cup
    {[op |-> o, data |-> FramePayload(n, 11), mask |-> NULL] :
        o \in {WS_OP_TEXT, WS_OP_BINARY}, n \in {65535, 65536}}

FrameOff ==
    /\ fr_op = 0
    /\ fr_data = <<>>
    /\ fr_mask = NULL
    /\ fr_wire = <<>>
    /\ fr_frame = NoFrame
    /\ fr_pc = "off"

FrameInit ==
    /\ \E f \in FrameInputs :
         /\ fr_op = f.op
         /\ fr_data = f.data
         /\ fr_mask = f.mask
    /\ fr_wire = <<>>
    /\ fr_frame = NoFrame
    /\ fr_pc = "input"

\* the server writes the frame
FrameWrite ==
    /\ fr_pc = "input"
    /\ IsNull(fr_mask)
    /\ fr_wire' = ws_write_frame(fr_op, fr_data)
    /\ fr_pc' = "wire"
    /\ UNCHANGED <<fr_op, fr_data, fr_mask, fr_frame>>
    /\ UNCHANGED notFrameVars

\* a client writes the frame
FrameFromClient ==
    /\ fr_pc = "input"
    /\ ~IsNull(fr_mask)
    /\ fr_wire' = client_frame(fr_op, fr_data, Val(fr_mask))
    /\ fr_pc' = "wire"
    /\ UNCHANGED <<fr_op, fr_data, fr_mask, fr_frame>>
    /\ UNCHANGED notFrameVars

\* the frame is read off the wire
FrameRead ==
    /\ fr_pc = "wire"
    /\ fr_frame' = ws_read_frame(fr_wire)
    /\ fr_pc' = "read"
    /\ UNCHANGED <<fr_op, fr_data, fr_mask, fr_wire>>
    /\ UNCHANGED notFrameVars

FrameNext ==
    \/ FrameWrite
    \/ FrameFromClient
    \/ FrameRead

(***************************************************************************)
(* The handshake (ws.c:52-147).                                            *)
(***************************************************************************)
CRLF == "\r\n"
MAX_CLIENTS == 64

WS_MAGIC ==
    <<"2", "5", "8", "E", "A", "F", "A", "5", "-", "E", "9", "1", "4", "-", "4", "7",
      "D", "A", "-", "9", "5", "C", "A", "-", "5", "A", "B", "9", "D", "C", "0", "8",
      "5", "B", "7">>

\* strstr from position from on: where the needle starts, 0 for NULL
strstr(s, needle, from) ==
    LET hits == {i \in from..(Len(s) - Len(needle) + 1) :
                    SubSeq(s, i, i + Len(needle) - 1) = needle}
    IN  IF hits = {} THEN 0 ELSE CHOOSE i \in hits : \A j \in hits : i <= j

\* the first position from p on whose token is in stops, or the end
ScanTo(s, p, stops) ==
    LET hits == {i \in p..Len(s) : s[i] \in stops}
    IN  IF hits = {} THEN Len(s) + 1 ELSE CHOOSE i \in hits : \A j \in hits : i <= j

\* the first position from p on whose token is not in skipped, or the end
ScanPast(s, p, skipped) ==
    LET hits == {i \in p..Len(s) : s[i] \notin skipped}
    IN  IF hits = {} THEN Len(s) + 1 ELSE CHOOSE i \in hits : \A j \in hits : i <= j

RECURSIVE find_header_from(_, _, _)
find_header_from(req, name, p) ==
    LET q == strstr(req, <<name>>, p) IN
    IF q = 0 THEN NULL
    ELSE IF q # 1 /\ req[q - 1] # CRLF THEN find_header_from(req, name, q + 1)
    ELSE LET v == ScanPast(req, q + 1, {" ", ":"})
         IN  Some(SubSeq(req, v, ScanTo(req, v, {CRLF}) - 1))

\* find_header (ws.c:53-70): the value of the first line that starts with name
find_header(req, name) == find_header_from(req, name, 1)

\* ws.c:92-96: the Authorization header carries "Bearer " and the token
AuthedByHeader(req, token) ==
    LET h == find_header(req, "Authorization") IN
    /\ ~IsNull(h)
    /\ Len(Val(h)) >= 2
    /\ SubSeq(Val(h), 1, 2) = <<"Bearer", " ">>
    /\ SubSeq(Val(h), 3, Len(Val(h))) = token

\* ws.c:99-112: the text after the first "token=" behind the first '?'
AuthedByQuery(req, token) ==
    LET qmark == strstr(req, <<"?">>, 1)
        tok == IF qmark = 0 THEN 0 ELSE strstr(req, <<"token", "=">>, qmark)
    IN  /\ tok # 0
        /\ SubSeq(req, tok + 2, ScanTo(req, tok + 2, {" ", "&", CRLF}) - 1) = token

\* ws.c:132-140: the accept key of a client key
accept_key(ws_key) == base64_encode(sha1(BytesOf(ws_key \o WS_MAGIC)))

SampleKey ==
    <<"d", "G", "h", "l", "I", "H", "N", "h", "b", "X", "B", "s", "Z", "S", "B", "u",
      "b", "2", "5", "j", "Z", "Q", "=", "=">>

\* the keys the clients of the model send, and their accept keys, computed once
ClientKeys == {SampleKey}
AcceptKeys == [k \in ClientKeys |-> accept_key(k)]

Http401 == <<"HTTP/1.1", " ", "401", " ", "Unauthorized", CRLF, CRLF>>
Http101(accept) ==
    <<"HTTP/1.1", " ", "101", " ", "Switching Protocols", CRLF,
      "Upgrade", ":", " ", "websocket", CRLF,
      "Connection", ":", " ", "Upgrade", CRLF,
      "Sec-WebSocket-Accept", ":", " ">> \o accept \o <<CRLF, CRLF>>

\* ws_handshake (ws.c:72-147) on the request read from the socket: the value
\* returned and what was written to the socket
ws_handshake(req, token) ==
    IF req = <<>> THEN [rc |-> -1, written |-> <<>>]
    ELSE IF /\ strstr(req, <<"Upgrade", ":", " ", "websocket">>, 1) = 0
            /\ strstr(req, <<"Upgrade", ":", " ", "WebSocket">>, 1) = 0
         THEN [rc |-> -1, written |-> <<>>]
    ELSE IF /\ ~IsNull(token)
            /\ Val(token) # <<>>
            /\ ~AuthedByHeader(req, Val(token))
            /\ ~AuthedByQuery(req, Val(token))
         THEN [rc |-> -1, written |-> Http401]
    ELSE LET ws_key == find_header(req, "Sec-WebSocket-Key") IN
         IF IsNull(ws_key) THEN [rc |-> -1, written |-> <<>>]
         ELSE [rc |-> 0, written |-> Http101(AcceptKeys[Val(ws_key)])]

\* the upgrade requests of the clients
RequestLine(target) == <<"GET", " ">> \o target \o <<" ", "HTTP/1.1", CRLF>>
HeaderLine(name, value) == <<name, ":", " ">> \o value \o <<CRLF>>
UpgradeLines == HeaderLine("Host", <<"gw">>) \o HeaderLine("Upgrade", <<"websocket">>)
                \o HeaderLine("Connection", <<"Upgrade">>)
KeyLine == HeaderLine("Sec-WebSocket-Key", SampleKey)
Secret == <<"s3cret">>
Chat == <<"/", "chat">>

\* the plain request: the token in the Authorization header
PlainRequest ==
    RequestLine(Chat) \o UpgradeLines
    \o HeaderLine("Authorization", <<"Bearer", " ">> \o Secret) \o KeyLine \o <<CRLF>>

Requests ==
    { PlainRequest,
      \* the token as a query parameter, alone and behind another
      RequestLine(Chat \o <<"?", "token", "=">> \o Secret) \o UpgradeLines \o KeyLine \o <<CRLF>>,
      RequestLine(Chat \o <<"?", "v", "=", "1", "&", "token", "=">> \o Secret)
          \o UpgradeLines \o KeyLine \o <<CRLF>>,
      \* no token, another token, a longer token
      RequestLine(Chat) \o UpgradeLines \o KeyLine \o <<CRLF>>,
      RequestLine(Chat \o <<"?", "token", "=", "guess">>) \o UpgradeLines \o KeyLine \o <<CRLF>>,
      RequestLine(Chat \o <<"?", "token", "=">> \o Secret \o <<"x">>)
          \o UpgradeLines \o KeyLine \o <<CRLF>>,
      RequestLine(Chat) \o UpgradeLines
          \o HeaderLine("Authorization", <<"Bearer", " ", "guess">>) \o KeyLine \o <<CRLF>>,
      \* the token under a longer parameter name
      RequestLine(Chat \o <<"?", "x", "token", "=">> \o Secret) \o UpgradeLines \o KeyLine \o <<CRLF>>,
      \* the token in another header
      RequestLine(Chat \o <<"?", "v", "=", "1">>) \o UpgradeLines
          \o HeaderLine("Cookie", <<"token", "=">> \o Secret) \o KeyLine \o <<CRLF>>,
      \* not an upgrade request
      RequestLine(Chat) \o HeaderLine("Host", <<"gw">>)
          \o HeaderLine("Authorization", <<"Bearer", " ">> \o Secret) \o <<CRLF>>,
      \* no Sec-WebSocket-Key
      RequestLine(Chat) \o UpgradeLines
          \o HeaderLine("Authorization", <<"Bearer", " ">> \o Secret) \o <<CRLF>>,
      \* the client closes without a request
      <<>> }

(***************************************************************************)
(* The server loop (ws.c:230-342) with its clients.  A connection is known *)
(* by its number in conns; the loop finds it through fds.                  *)
(***************************************************************************)
\* what a client sends after the handshake: frames under a masking key, and
\* a frame cut short by the end of the connection
ClientKey == <<55, 250, 33, 61>>
ClientItems ==
    { [kind |-> "text", data |-> <<104, 105>>,
       bytes |-> client_frame(WS_OP_TEXT, <<104, 105>>, ClientKey)],
      [kind |-> "ping", data |-> <<1, 2, 3>>,
       bytes |-> client_frame(WS_OP_PING, <<1, 2, 3>>, ClientKey)],
      [kind |-> "close", data |-> <<>>,
       bytes |-> client_frame(WS_OP_CLOSE, <<>>, ClientKey)],
      [kind |-> "binary", data |-> <<0, 255>>,
       bytes |-> client_frame(WS_OP_BINARY, <<0, 255>>, ClientKey)],
      [kind |-> "cut", data |-> <<>>,
       bytes |-> SubSeq(client_frame(WS_OP_TEXT, <<104, 105>>, ClientKey), 1, 7)] }

\* what agent_turn returns to ws_on_message (main.c:324): no text, an empty
\* text, a text
AgentReplies == {NULL, Some(<<>>), Some(<<111, 107>>)}

\* what the server writes to a socket: the text of an HTTP reply, or a frame
HttpOut(text) == [kind |-> "http", bytes |-> text]
FrameOut(bytes) == [kind |-> "frame", bytes |-> bytes]

NewConn(req) ==
    [req |-> req, hs |-> -2, peers |-> -1, state |-> "queued", sent |-> <<>>,
     nread |-> 0, out |-> <<>>, connects |-> 0, messages |-> 0, disconnects |-> 0,
     closes |-> 0, replies |-> <<>>]

\* a client that has been connected for a while and has sent nothing yet;
\* its handshake lies before what is watched
OldConn == [NewConn(<<>>) EXCEPT !.state = "open", !.connects = 1]

\* the bytes of a connection that the server has not read yet
Inbox(c) == SubSeq(conns[c].sent, conns[c].nread + 1, Len(conns[c].sent))

\* room is seen where the array is full
HasRoom_always(nfds) == nfds <= MAX_CLIENTS + 1
\* ws.c:278: there is a free slot
HasRoom(nfds) == nfds < MAX_CLIENTS + 1

WsOff ==
    /\ auth_token = NULL
    /\ on_message = "none"
    /\ fds = <<>>
    /\ revents = <<>>
    /\ conns = <<>>
    /\ backlog = <<>>
    /\ ws_pc = "off"
    /\ ws_i = 0
    /\ ws_events = 0
    /\ ws_odd = 0
    /\ ws_ready = {}
    /\ ws_reads = <<>>

\* ws_server_start in its loop (ws.c:230-263), with no client yet, with one
\* or two, or with all slots but one taken by clients that are quiet so far
WsInit ==
    /\ \E cfg \in {<<Some(Secret), "gateway", 2>>,
                   <<Some(Secret), "gateway", MAX_CLIENTS - 1>>,
                   <<Some(Secret), "refusing", 2>>, <<NULL, "gateway", 0>>} :
         /\ auth_token = cfg[1]
         /\ on_message = cfg[2]
         /\ fds = [k \in 1..cfg[3] |-> k]
         /\ conns = [k \in 1..cfg[3] |-> OldConn]
         /\ revents = [k \in 0..MAX_CLIENTS |-> IF k <= cfg[3] THEN "none" ELSE "unset"]
    /\ backlog = <<>>
    /\ ws_pc = "poll"
    /\ ws_i = 0
    /\ ws_events = 0
    /\ ws_odd = 0
    /\ ws_ready = {}
    /\ ws_reads = <<>>

\* The server sees its clients only in poll, accept and read, so what a
\* client does while the loop is elsewhere is the same as done at the next
\* poll: a client acts when the server is about to poll, or waits in a read.
Waiting ==
    \/ ws_pc = "poll"
    \/ /\ ws_pc = "clients"
       /\ ws_i <= Len(fds)
       /\ revents[ws_i] \in {"in", "unset"}
       /\ SubSeq(conns[fds[ws_i]].sent, conns[fds[ws_i]].nread + 1,
                 Len(conns[fds[ws_i]].sent)) = <<>>

\* a client connects and sends its request
WsConnect ==
    /\ Waiting
    /\ ws_events < MaxWsEvents
    /\ \E req \in Requests :
         LET cost == IF req = PlainRequest THEN 0 ELSE 1 IN
         /\ ws_odd + cost <= MaxWsOdd
         /\ ws_odd' = ws_odd + cost
         /\ conns' = Append(conns, NewConn(req))
         /\ backlog' = Append(backlog, Len(conns) + 1)
    /\ ws_events' = ws_events + 1
    /\ UNCHANGED <<auth_token, on_message, fds, revents, ws_pc, ws_i>>
    /\ UNCHANGED <<ws_ready, ws_reads>>
    /\ UNCHANGED notWsVars

\* the connections whose clients talk: the first and the last
Talkers == {c \in 1..Len(conns) : c = 1 \/ c = Len(conns)}

\* a connected client sends a frame, or ends the connection
WsClientSends ==
    /\ Waiting
    /\ ws_events < MaxWsEvents
    /\ \E c \in Talkers, item \in ClientItems :
         LET cost == IF item.kind = "text" THEN 0 ELSE 1 IN
         /\ conns[c].state = "open"
         /\ \A k \in 1..Len(conns[c].sent) : conns[c].sent[k].kind # "cut"
         /\ ws_odd + cost <= MaxWsOdd
         /\ ws_odd' = ws_odd + cost
         /\ conns' = [conns EXCEPT ![c].sent = Append(@, item)]
    /\ ws_events' = ws_events + 1
    /\ UNCHANGED <<auth_token, on_message, fds, revents, backlog, ws_pc, ws_i>>
    /\ UNCHANGED <<ws_ready, ws_reads>>
    /\ UNCHANGED notWsVars

\* poll returns with something to read (ws.c:263-269)
WsPoll ==
    /\ ws_pc = "poll"
    /\ backlog # <<>> \/ \E i \in 1..Len(fds) : Inbox(fds[i]) # <<>>
    /\ revents' = [k \in 0..MAX_CLIENTS |->
                      IF k = 0 THEN (IF backlog # <<>> THEN "in" ELSE "none")
                      ELSE IF k <= Len(fds)
                           THEN (IF Inbox(fds[k]) # <<>> THEN "in" ELSE "none")
                      ELSE revents[k]]
    /\ ws_pc' = "accept"
    /\ UNCHANGED <<auth_token, on_message, fds, conns, backlog, ws_i, ws_events, ws_odd>>
    /\ ws_ready' = {fds[k] : k \in {j \in 1..Len(fds) : Inbox(fds[j]) # <<>>}}
    /\ ws_reads' = <<>>
    /\ UNCHANGED notWsVars

\* ws.c:272-294: a connection is accepted and shaken hands with
WsAccept ==
    /\ ws_pc = "accept"
    /\ revents[0] = "in"
    /\ LET c == Head(backlog)
           h == ws_handshake(conns[c].req, auth_token)
           shaken == [conns[c] EXCEPT !.hs = h.rc, !.peers = Len(fds),
                                      !.out = IF h.written = <<>> THEN @
                                              ELSE Append(@, HttpOut(h.written))]
       IN  IF h.rc = 0 /\ HasRoom(Len(fds) + 1)
           THEN /\ fds' = Append(fds, c)
                /\ conns' = [conns EXCEPT ![c] = [shaken EXCEPT !.state = "open",
                                                                !.connects = @ + 1]]
           ELSE /\ fds' = fds
                /\ conns' = [conns EXCEPT ![c] =
                                [shaken EXCEPT !.state = "closed", !.closes = @ + 1,
                                               !.out = IF h.rc = 0
                                                       THEN Append(@, FrameOut(ws_write_frame(WS_OP_CLOSE, <<>>)))
                                                       ELSE @]]
    /\ backlog' = Tail(backlog)
    /\ ws_pc' = "clients"
    /\ ws_i' = 1
    /\ UNCHANGED <<auth_token, on_message, revents, ws_events, ws_odd>>
    /\ UNCHANGED <<ws_ready, ws_reads>>
    /\ UNCHANGED notWsVars

\* ws.c:272: nothing to accept
WsNoAccept ==
    /\ ws_pc = "accept"
    /\ revents[0] # "in"
    /\ ws_pc' = "clients"
    /\ ws_i' = 1
    /\ UNCHANGED <<auth_token, on_message, fds, revents, conns, backlog, ws_events, ws_odd>>
    /\ UNCHANGED <<ws_ready, ws_reads>>
    /\ UNCHANGED notWsVars

\* the slot is looked at, and the read returns: a slot that no poll has
\* written may hold anything
Readable(i) ==
    /\ ws_pc = "clients"
    /\ i <= Len(fds)
    /\ revents[i] \in {"in", "unset"}
    /\ Inbox(fds[i]) # <<>>

\* the frame ws_read_frame gets in slot i
FrameIn(i) == ws_read_frame(Head(Inbox(fds[i])).bytes)

\* a remove_client that leaves on_disconnect out
RemoveClient_silent(i, cs) ==
    /\ conns' = [cs EXCEPT ![fds[i]].closes = @ + 1, ![fds[i]].state = "closed"]
    /\ fds' = SubSeq([fds EXCEPT ![i] = fds[Len(fds)]], 1, Len(fds) - 1)
    /\ revents' = [revents EXCEPT ![i] = revents[Len(fds)]]
    /\ ws_i' = ws_i

\* a remove_client that goes on with the next slot
RemoveClient_skipping(i, cs) ==
    /\ conns' = [cs EXCEPT ![fds[i]].disconnects = @ + 1, ![fds[i]].closes = @ + 1,
                           ![fds[i]].state = "closed"]
    /\ fds' = SubSeq([fds EXCEPT ![i] = fds[Len(fds)]], 1, Len(fds) - 1)
    /\ revents' = [revents EXCEPT ![i] = revents[Len(fds)]]
    /\ ws_i' = ws_i + 1

\* ws.c:329-335: remove_client
RemoveClient(i, cs) ==
    /\ conns' = [cs EXCEPT ![fds[i]].disconnects = @ + 1, ![fds[i]].closes = @ + 1,
                           ![fds[i]].state = "closed"]
    /\ fds' = SubSeq([fds EXCEPT ![i] = fds[Len(fds)]], 1, Len(fds) - 1)
    /\ revents' = [revents EXCEPT ![i] = revents[Len(fds)]]
    /\ ws_i' = ws_i

\* the frame is taken off the connection in slot i
Taken(i) == [conns EXCEPT ![fds[i]].nread = @ + 1]

\* ws.c:296-297: the slot has nothing to read, nor have those behind it up
\* to the next one where poll has not said so
WsIdle ==
    /\ ws_pc = "clients"
    /\ ws_i <= Len(fds)
    /\ revents[ws_i] \in {"none", "unset"}
    /\ ws_i' = IF revents[ws_i] = "unset" THEN ws_i + 1
               ELSE LET busy == {j \in ws_i..Len(fds) : revents[j] # "none"} IN
                    IF busy = {} THEN Len(fds) + 1
                    ELSE CHOOSE j \in busy : \A k \in busy : j <= k
    /\ UNCHANGED <<auth_token, on_message, fds, revents, conns, backlog, ws_pc,
                   ws_events, ws_odd>>
    /\ UNCHANGED <<ws_ready, ws_reads>>
    /\ UNCHANGED notWsVars

\* ws.c:300-303: ws_read_frame fails
WsReadFails ==
    /\ Readable(ws_i)
    /\ FrameIn(ws_i).rc # 0
    /\ RemoveClient(ws_i, Taken(ws_i))
    /\ UNCHANGED <<auth_token, on_message, backlog, ws_pc, ws_events, ws_odd>>
    /\ ws_reads' = Append(ws_reads, fds[ws_i])
    /\ UNCHANGED ws_ready
    /\ UNCHANGED notWsVars

\* ws.c:306-315 with main.c:316-331: a text frame, and on_message is the
\* gateway's, which runs a turn and sends what it returns
WsText ==
    /\ Readable(ws_i)
    /\ FrameIn(ws_i).rc = 0
    /\ FrameIn(ws_i).opcode = WS_OP_TEXT
    /\ on_message = "gateway"
    /\ \E reply \in AgentReplies :
         conns' = [Taken(ws_i) EXCEPT
                      ![fds[ws_i]].messages = @ + 1,
                      ![fds[ws_i]].replies = Append(@, reply),
                      ![fds[ws_i]].out = IF IsNull(reply) THEN @
                                         ELSE Append(@, FrameOut(ws_write_frame(WS_OP_TEXT, Val(reply))))]
    /\ ws_i' = ws_i + 1
    /\ UNCHANGED <<auth_token, on_message, fds, revents, backlog, ws_pc, ws_events, ws_odd>>
    /\ ws_reads' = Append(ws_reads, fds[ws_i])
    /\ UNCHANGED ws_ready
    /\ UNCHANGED notWsVars

\* ws.c:306-313: a text frame, and on_message returns false
WsTextRefused ==
    /\ Readable(ws_i)
    /\ FrameIn(ws_i).rc = 0
    /\ FrameIn(ws_i).opcode = WS_OP_TEXT
    /\ on_message = "refusing"
    /\ RemoveClient(ws_i, [Taken(ws_i) EXCEPT
                              ![fds[ws_i]].messages = @ + 1,
                              ![fds[ws_i]].out = Append(@, FrameOut(ws_write_frame(WS_OP_CLOSE, <<>>)))])
    /\ UNCHANGED <<auth_token, on_message, backlog, ws_pc, ws_events, ws_odd>>
    /\ ws_reads' = Append(ws_reads, fds[ws_i])
    /\ UNCHANGED ws_ready
    /\ UNCHANGED notWsVars

\* ws.c:316-318: a ping
WsPing ==
    /\ Readable(ws_i)
    /\ FrameIn(ws_i).rc = 0
    /\ FrameIn(ws_i).opcode = WS_OP_PING
    /\ conns' = [Taken(ws_i) EXCEPT
                    ![fds[ws_i]].out = Append(@, FrameOut(ws_write_frame(WS_OP_PONG, FrameIn(ws_i).payload)))]
    /\ ws_i' = ws_i + 1
    /\ UNCHANGED <<auth_token, on_message, fds, revents, backlog, ws_pc, ws_events, ws_odd>>
    /\ ws_reads' = Append(ws_reads, fds[ws_i])
    /\ UNCHANGED ws_ready
    /\ UNCHANGED notWsVars

\* ws.c:319-322: a close frame
WsCloseFrame ==
    /\ Readable(ws_i)
    /\ FrameIn(ws_i).rc = 0
    /\ FrameIn(ws_i).opcode = WS_OP_CLOSE
    /\ RemoveClient(ws_i, [Taken(ws_i) EXCEPT
                              ![fds[ws_i]].out = Append(@, FrameOut(ws_write_frame(WS_OP_CLOSE, <<>>)))])
    /\ UNCHANGED <<auth_token, on_message, backlog, ws_pc, ws_events, ws_odd>>
    /\ ws_reads' = Append(ws_reads, fds[ws_i])
    /\ UNCHANGED ws_ready
    /\ UNCHANGED notWsVars

\* ws.c:323-327: any other frame
WsOtherFrame ==
    /\ Readable(ws_i)
    /\ FrameIn(ws_i).rc = 0
    /\ FrameIn(ws_i).opcode \notin {WS_OP_TEXT, WS_OP_PING, WS_OP_CLOSE}
    /\ conns' = Taken(ws_i)
    /\ ws_i' = ws_i + 1
    /\ UNCHANGED <<auth_token, on_message, fds, revents, backlog, ws_pc, ws_events, ws_odd>>
    /\ ws_reads' = Append(ws_reads, fds[ws_i])
    /\ UNCHANGED ws_ready
    /\ UNCHANGED notWsVars

\* ws.c:296: the loop over the slots is over
WsLoopEnd ==
    /\ ws_pc = "clients"
    /\ ws_i > Len(fds)
    /\ ws_pc' = "poll"
    /\ UNCHANGED <<auth_token, on_message, fds, revents, conns, backlog, ws_i,
                   ws_events, ws_odd>>
    /\ ws_ready' = {}
    /\ ws_reads' = <<>>
    /\ UNCHANGED notWsVars

WsNext ==
    \/ WsConnect
    \/ WsClientSends
    \/ WsPoll
    \/ WsAccept
    \/ WsNoAccept
    \/ WsIdle
    \/ WsReadFails
    \/ WsText
    \/ WsTextRefused
    \/ WsPing
    \/ WsCloseFrame
    \/ WsOtherFrame
    \/ WsLoopEnd

(***************************************************************************)
(* The termination signal (main.c:37-50) during a streamed agent turn.     *)
(* print_stream gives g_running to the stream as its answer to every text  *)
(* delta; agent_turn (main.c:61-153) does not read it.                     *)
(***************************************************************************)
\* main.c:39-42: sigint_handler runs while the provider call of this
\* iteration streams, behind the last text delta it hands to print_stream;
\* the call has returned its response
Sigint ==
    /\ g_running = 1
    /\ \/ pc = "tool_use" /\ ti = 1
       \/ pc = "save" /\ calls > 0 /\ turn < max_turns
    /\ g_running' = 0
    /\ UNCHANGED notSigVars

(***************************************************************************)
(* The gateway's sessions (main.c:316-331): one agent turn per text frame  *)
(* on the session ws_<fd> of the client's descriptor.  A message carries   *)
(* the number of the connection it came over as its text.                  *)
(***************************************************************************)
\* the descriptors accept may return: those above the listening socket
GwFds == 4..(4 + MaxGwOps)

\* accept returns the lowest descriptor that is not open
LowestFree(used) == CHOOSE f \in GwFds \ used : \A g \in GwFds \ used : f <= g

\* main.c:321: snprintf(session_id, sizeof(session_id), "ws_%d", client_fd)
WsSessionId(fd) == Some(<<"ws_">> \o IdStr(fd))

\* the descriptors of the connections that are open
OpenFds == {gw_clients[c].fd : c \in {k \in 1..Len(gw_clients) : gw_clients[k].open}}

\* the disk as session.c sees it for the session of descriptor fd
DiskOf(fd) == [dirs |-> gw_dirs, file |-> gw_files[fd]]

NoTurn == [client |-> 0, messages |-> <<>>]

GwOff ==
    /\ gw_clients = <<>>
    /\ gw_dirs = {}
    /\ gw_files = <<>>
    /\ gw_hist = NoTurn
    /\ gw_ops = 0

\* the gateway starts in a workspace without sessions
GwInit ==
    /\ gw_clients = <<>>
    /\ gw_dirs = {}
    /\ gw_files = [f \in GwFds |-> NULL]
    /\ gw_hist = NoTurn
    /\ gw_ops = 0

\* ws.c:275-284: a client connects and is given a slot
GwAccept ==
    /\ gw_ops < MaxGwOps
    /\ gw_ops' = gw_ops + 1
    /\ gw_clients' = Append(gw_clients, [fd |-> LowestFree(OpenFds), open |-> TRUE,
                                         turns |-> 0])
    /\ UNCHANGED <<gw_dirs, gw_files, gw_hist>>
    /\ UNCHANGED notGwVars

\* main.c:316-331: ws_on_message for a text frame of connection c, with
\* agent_turn's user message, its provider call, its final text if there is
\* one, and its session_save (main.c:62-68, 141-152)
GwMessage ==
    /\ gw_ops < MaxGwOps
    /\ gw_ops' = gw_ops + 1
    /\ \E c \in 1..Len(gw_clients), reply \in {NULL, Some(Tok("a"))} :
         LET fd == gw_clients[c].fd
             session == session_new(PlainWorkspace, WsSessionId(fd), DiskOf(fd))
             asked == session_add_user(session, IdStr(c))
             done == NoToolsSession(asked, reply)
             saved == session_save(done.messages,
                                   SessionFile(PlainWorkspace, WsSessionId(fd)), DiskOf(fd))
         IN  /\ gw_clients[c].open
             /\ gw_hist' = [client |-> c, messages |-> asked.messages]
             /\ gw_dirs' = saved.dirs
             /\ gw_files' = [gw_files EXCEPT ![fd] = saved.file]
             /\ gw_clients' = [gw_clients EXCEPT ![c].turns = @ + 1]
    /\ UNCHANGED notGwVars

\* ws.c:330-336: the connection ends and its descriptor is closed; main.c
\* sets no on_disconnect (main.c:333-337)
GwDisconnect ==
    /\ gw_ops < MaxGwOps
    /\ gw_ops' = gw_ops + 1
    /\ \E c \in 1..Len(gw_clients) :
         /\ gw_clients[c].open
         /\ gw_clients' = [gw_clients EXCEPT ![c].open = FALSE]
    /\ UNCHANGED <<gw_dirs, gw_files, gw_hist>>
    /\ UNCHANGED notGwVars

GwNext ==
    \/ GwAccept
    \/ GwMessage
    \/ GwDisconnect

(***************************************************************************)
(* The system prompt (workspace.c:63-133) in the arena of main.c:275.      *)
(* Lengths are in bytes.  A pointer is [gen, off]: the block of memory     *)
(* the arena's buf pointed to when the pointer was taken, and the offset   *)
(* in it.                                                                  *)
(***************************************************************************)
\* workspace.c:9
MAX_FILE_SIZE == 65536
\* workspace.c:64: `size_t cap = 128 * 1024`
PROMPT_CAP == 131072
\* main.c:275: arena_new(256 * 1024)
ARENA_CAP == 262144
\* strlen(safety), workspace.c:69-74
SAFETY_LEN == 198
\* strlen(tools), workspace.c:80-87
TOOLS_LEN == 235
\* the format of workspace.c:93 without its %s
WORKSPACE_FMT_LEN == 37
\* strlen(ctx), workspace.c:97
CTX_LEN == 20
\* the date section of workspace.c:115-118, whose fields have fixed widths
DATE_LEN == 65
\* the format of workspace.c:127-129 without its four %s
RUNTIME_FMT_LEN == 58
\* "### " and the two line feeds of workspace.c:42
HEADER_FMT_LEN == 6
\* the format of workspace.c:57 without its two %s
NOT_FOUND_FMT_LEN == 26
\* strlen of each of files[], workspace.c:103-106
FileNameLen == <<9, 7, 8, 11, 7, 12, 9>>
NumFiles == Len(FileNameLen)

\* arena.c:17: `size = (size + 7) & ~(size_t)7`
Align8(size) == ((size + 7) \div 8) * 8
\* arena.c:20-21: the capacity is doubled until the request fits
RECURSIVE DoubleUntil(_, _)
DoubleUntil(new_cap, need) ==
    IF need > new_cap THEN DoubleUntil(new_cap * 2, need) ELSE new_cap
\* arena.c:15-28: arena_alloc; `moved` is whether realloc, when called,
\* gives another block than the one buf pointed to
arena_alloc(a, size, moved) ==
    LET sz == Align8(size)
        grows == a.pos + sz > a.cap
        gen == IF grows /\ moved THEN a.gen + 1 ELSE a.gen
    IN  [arena |-> [cap |-> IF grows THEN DoubleUntil(a.cap * 2, a.pos + sz)
                                     ELSE a.cap,
                    pos |-> a.pos + sz,
                    gen |-> gen],
         ptr |-> [gen |-> gen, off |-> a.pos]]
\* arena.c:7-13: arena_new
arena_new(cap) == [cap |-> cap, pos |-> 0, gen |-> 0]

\* a file of the workspace: its size, and its bytes before the first NUL;
\* size 0 stands for a file that is missing or empty
IdentityFiles ==
    { [size |-> 0, text |-> 0],
      [size |-> SmallFile, text |-> 0],
      [size |-> SmallFile, text |-> SmallFile],
      [size |-> MAX_FILE_SIZE, text |-> 0],
      [size |-> MAX_FILE_SIZE, text |-> MAX_FILE_SIZE],
      [size |-> MAX_FILE_SIZE + 1, text |-> MAX_FILE_SIZE + 1] }
\* workspace.c:11-32: ws_read_file; found is whether it returns a buffer,
\* text is strlen of that buffer
ws_read_file(a, file, moved) ==
    IF file.size <= 0 \/ file.size > MAX_FILE_SIZE
    THEN [arena |-> a, found |-> FALSE, text |-> 0]
    ELSE [arena |-> arena_alloc(a, file.size + 1, moved).arena,
          found |-> TRUE, text |-> file.text]
\* workspace.c:45-48: `while (needed > *out_cap) *out_cap *= 2`
RECURSIVE GrowCap(_, _)
GrowCap(cap, needed) == IF needed > cap THEN GrowCap(cap * 2, needed) ELSE cap
\* workspace.c:35-61: inject_file for files[i]: arena, len and cap
\* afterwards
inject_file(a, len, cap, i, file, moved) ==
    LET r == ws_read_file(a, file, moved)
        name == FileNameLen[i]
    IN  IF r.found /\ r.text > 0
        THEN LET n == HEADER_FMT_LEN + name
                 needed == len + n + r.text + 4
             IN  [arena |-> r.arena,
                  len |-> len + n + r.text + 2,
                  cap |-> GrowCap(cap, needed)]
        ELSE [arena |-> r.arena,
              len |-> len + NOT_FOUND_FMT_LEN + 2 * name,
              cap |-> cap]
\* how far snprintf(out + len, cap - len, ...) of n characters writes: the
\* characters that fit and a NUL; cap - len is a size_t
SnprintfEnd(len, cap, n) ==
    IF cap > len /\ n >= cap - len THEN cap ELSE len + n + 1
\* the end of the write that reaches furthest
Highest(S) == CHOOSE x \in S : \A y \in S : y <= x
\* a write through out that ends at top may fault: out points into a block
\* realloc has given back, or the write runs past the arena's block
MayFault(a, out, top) == out.gen # a.gen \/ out.off + top > a.cap

NoPointer == [gen |-> 0, off |-> 0]
PromptOff ==
    /\ sp_arena = arena_new(0)
    /\ sp_out = NoPointer
    /\ sp_len = 0
    /\ sp_cap = 0
    /\ sp_i = 0
    /\ sp_top = 0
    /\ sp_workspace = 0
    /\ sp_pc = "off"

\* main.c:275-276: a new arena, and the call of ws_build_system_prompt
PromptInit ==
    /\ sp_arena = arena_new(ARENA_CAP)
    /\ sp_out = NoPointer
    /\ sp_len = 0
    /\ sp_cap = 0
    /\ sp_i = 0
    /\ sp_top = 0
    /\ sp_workspace \in {1, MaxWorkspaceLen}
    /\ sp_pc = "call"

\* workspace.c:64-99: the buffer is taken from the arena; the safety, tools,
\* workspace and project-context sections are written
PromptBegin ==
    /\ sp_pc = "call"
    /\ LET r == arena_alloc(sp_arena, PROMPT_CAP, FALSE)
           len == SAFETY_LEN + TOOLS_LEN + (WORKSPACE_FMT_LEN + sp_workspace)
                  + CTX_LEN
       IN  /\ sp_arena' = r.arena
           /\ sp_out' = r.ptr
           /\ sp_cap' = PROMPT_CAP
           /\ sp_len' = len
           /\ sp_top' = len
    /\ sp_i' = 1
    /\ sp_pc' = "files"
    /\ UNCHANGED sp_workspace
    /\ UNCHANGED notPromptVars

\* workspace.c:107-109: one pass of the loop over files[]: inject_file
InjectFile ==
    /\ sp_pc = "files"
    /\ sp_i <= NumFiles
    /\ \E file \in IdentityFiles, moved \in BOOLEAN :
        LET r == inject_file(sp_arena, sp_len, sp_cap, sp_i, file, moved) IN
        /\ sp_arena' = r.arena
        /\ sp_len' = r.len
        /\ sp_cap' = r.cap
        /\ sp_top' = r.len
        /\ \/ /\ sp_i' = sp_i + 1
              /\ sp_pc' = "files"
           \/ /\ MayFault(r.arena, sp_out, r.len)
              /\ sp_i' = sp_i
              /\ sp_pc' = "crashed"
    /\ UNCHANGED <<sp_out, sp_workspace>>
    /\ UNCHANGED notPromptVars

\* workspace.c:107: files[i] is NULL, the loop ends
FilesDone ==
    /\ sp_pc = "files"
    /\ sp_i = NumFiles + 1
    /\ sp_pc' = "tail"
    /\ UNCHANGED <<sp_arena, sp_out, sp_len, sp_cap, sp_i, sp_top, sp_workspace>>
    /\ UNCHANGED notPromptVars

\* workspace.c:111-132: the date and runtime sections, the closing NUL and
\* the return of out
PromptEnd ==
    /\ sp_pc = "tail"
    /\ \E names \in {4, MaxRuntimeNames} :
        LET len1 == sp_len + DATE_LEN
            n == RUNTIME_FMT_LEN + names
            len2 == len1 + n
            top == Highest({SnprintfEnd(sp_len, sp_cap, DATE_LEN),
                        SnprintfEnd(len1, sp_cap, n), len2 + 1})
        IN  /\ sp_len' = len2
            /\ sp_top' = top
            /\ \/ sp_pc' = "returned"
               \/ /\ MayFault(sp_arena, sp_out, top)
                  /\ sp_pc' = "crashed"
    /\ UNCHANGED <<sp_arena, sp_out, sp_cap, sp_i, sp_workspace>>
    /\ UNCHANGED notPromptVars

PromptNext ==
    \/ PromptBegin
    \/ InjectFile
    \/ FilesDone
    \/ PromptEnd

(***************************************************************************)
(* The specifications: one part of the program runs, the others rest.      *)
(***************************************************************************)
\* the parts that came later rest
SigOff == g_running = 1
FourthOff == ParseOff /\ GwOff /\ SigOff /\ PromptOff
LaterOff == RegOff /\ FrameOff /\ WsOff /\ FourthOff
FirstOff == EnvOff /\ AgentInit /\ StreamOff /\ ToolsOff /\ SessOff /\ CronOff

\* a thread that registers and removes jobs, beside cron_run
SpecRegInit == FirstOff /\ RegInit /\ FrameOff /\ WsOff /\ FourthOff
SpecRegNext == RegNext
SpecReg == SpecRegInit /\ [][SpecRegNext]_vars

\* frames through the writer, or a client's encoder, and the reader
SpecFrameInit == FirstOff /\ RegOff /\ FrameInit /\ WsOff /\ FourthOff
SpecFrameNext == FrameNext
SpecFrame == SpecFrameInit /\ [][SpecFrameNext]_vars

\* the WebSocket server and its clients
SpecWsInit == FirstOff /\ RegOff /\ FrameOff /\ WsInit /\ FourthOff
SpecWsNext == WsNext
SpecWs == SpecWsInit /\ [][SpecWsNext]_vars

\* cron_parse and cron_matches on one expression
SpecParseInit ==
    FirstOff /\ RegOff /\ FrameOff /\ WsOff /\ ParseInit /\ GwOff /\ SigOff /\ PromptOff
SpecParseNext == ParseNext
SpecParse == SpecParseInit /\ [][SpecParseNext]_vars

\* the gateway's sessions over the connections of its clients
SpecGatewayInit ==
    FirstOff /\ RegOff /\ FrameOff /\ WsOff /\ ParseOff /\ GwInit /\ SigOff /\ PromptOff
SpecGatewayNext == GwNext
SpecGateway == SpecGatewayInit /\ [][SpecGatewayNext]_vars

\* ws_build_system_prompt alone
SpecPromptInit ==
    FirstOff /\ RegOff /\ FrameOff /\ WsOff /\ ParseOff /\ GwOff /\ SigOff /\ PromptInit
SpecPromptNext == PromptNext
SpecPrompt == SpecPromptInit /\ [][SpecPromptNext]_vars

\* cron_run with two jobs
SpecCronInit == EnvOff /\ AgentInit /\ StreamOff /\ ToolsOff /\ SessOff /\ CronInit /\ LaterOff
SpecCronNext == CronNext
SpecCron == SpecCronInit /\ [][SpecCronNext]_vars

\* a front-end on one session
SpecSessionInit ==
    /\ workspace \in Workspaces
    /\ session_id \in SessionIds
    /\ disk = NoDisk
    /\ AgentInit
    /\ StreamOff
    /\ ToolsOff
    /\ SessInit
    /\ CronOff
    /\ LaterOff
SpecSessionNext == SessNext
SpecSession == SpecSessionInit /\ [][SpecSessionNext]_vars

\* one streamed provider call
SpecStreamInit == EnvOff /\ AgentInit /\ StreamInit /\ ToolsOff /\ SessOff /\ CronOff /\ LaterOff
SpecStreamNext == StreamNext
SpecStream == SpecStreamInit /\ [][SpecStreamNext]_vars

\* one streamed call of the second dialect with tool-call deltas of any index
SpecSlotsInit == SpecStreamInit /\ dialect = "B"
SpecSlotsNext ==
    \/ SlotDeliver
    \/ StreamClose
    \/ StreamFinish
SpecSlots == SpecSlotsInit /\ [][SpecSlotsNext]_vars

\* one tool call
ToolsNext ==
    \/ ShellRun
    \/ FileReadRun
    \/ FileWriteRun
    \/ UnknownRun
SpecToolsInit == EnvOff /\ AgentInit /\ StreamOff /\ ToolsInit /\ SessOff /\ CronOff /\ LaterOff
SpecToolsNext == ToolsNext
SpecTools == SpecToolsInit /\ [][SpecToolsNext]_vars

\* agent_turn on one session
Init == EnvInit /\ AgentInit /\ StreamOff /\ ToolsOff /\ SessOff /\ CronOff /\ LaterOff
Next ==
    \/ AgentNext
    \/ ProviderCallFails
Spec == Init /\ [][Next]_vars

\* agent_turn on one session of the terminal, with the termination signal
SpecSignalNext ==
    \/ AgentNext
    \/ ProviderCallFails
    \/ Sigint
SpecSignal == Init /\ [][SpecSignalNext]_vars

(***************************************************************************)
(* Properties of the agent turn loop.                                      *)
(***************************************************************************)
RECURSIVE FlattenFrom(_, _)
\* the blocks of messages k.. of msgs in order, each with its message index
FlattenFrom(msgs, k) ==
    IF k > Len(msgs) THEN <<>>
    ELSE [j \in 1..Len(msgs[k].blocks) |->
            [m |-> k, type |-> msgs[k].blocks[j].type, id |-> msgs[k].blocks[j].id,
             name |-> msgs[k].blocks[j].name]]
         \o FlattenFrom(msgs, k + 1)
IsUse(b) == b.type = "tool_use"
IsResult(b) == b.type = "tool_result"
Uses == SelectSeq(FlattenFrom(messages, 1), IsUse)
Results == SelectSeq(FlattenFrom(messages, 1), IsResult)
\* C1 as stated: after agent_turn returns, every tool_use block is answered by
\* exactly one tool_result block with its id, in a later message, and the
\* results come in the order of their tool_use blocks.
C1_ExactlyOneResultPerId ==
    pc = "returned" =>
      /\ \A i \in 1..Len(Uses) :
           Cardinality({j \in 1..Len(Results) :
                          Results[j].id = Uses[i].id /\ Results[j].m > Uses[i].m}) = 1
      /\ Len(Results) = Len(Uses)
      /\ \A i \in 1..Len(Uses) : Results[i].id = Uses[i].id

\* C1 as amended: after agent_turn returns, the k-th tool_use block of the
\* session is answered by the k-th tool_result block, which is in the message
\* right after it and carries the same tool_use_id (none when the provider gave
\* no id); there are as many results as uses.
C1_ToolUseClosure ==
    pc = "returned" =>
      /\ Len(Results) = Len(Uses)
      /\ \A i \in 1..Len(Uses) :
           /\ Results[i].id = Uses[i].id
           /\ Results[i].m = Uses[i].m + 1

\* a turn cut off by the iteration limit has returned with its ten tool uses
C1_Witness ==
    /\ pc = "returned"
    /\ turn = max_turns
    /\ Len(Uses) >= max_turns

C3_FinalResponseAppended ==
    [][(pc = "call" /\ pc' = "save") =>
          /\ count' = count + 1
          /\ messages' = Append(messages,
                                ArrayMsg("assistant", <<TextBlock(OrEmpty(resp'.text))>>))
          /\ final_text' = resp'.text]_vars

\* the tool calls already dealt with when the loop is at index ti
DoneBefore == Len(received) - num_tools(resp) + (ti - 1)
CallIds(tcs) == [i \in 1..Len(tcs) |-> tcs[i].id]
BlockIds(bs) == [i \in 1..Len(bs) |-> bs[i].id]

\* C4: for the tool calls t1..tn of a response, tool_use(ti) is appended, then
\* ti is executed, then tool_result(ti) is appended, in the order the model
\* emitted them: the calls executed are a prefix of the calls received (each
\* once), a call is executed only when its tool_use block is the last block of
\* the session and all earlier results are there, and the next provider call
\* (or the return) finds every call executed and answered.
C4_ToolOrder ==
    /\ pc = "tool_use" =>
          /\ exec_log = SubSeq(received, 1, DoneBefore)
          /\ Len(Uses) = DoneBefore /\ Len(Results) = DoneBefore
    /\ pc = "tool_exec" =>
          /\ exec_log = SubSeq(received, 1, DoneBefore)
          /\ Len(Uses) = DoneBefore + 1 /\ Len(Results) = DoneBefore
          /\ Uses[DoneBefore + 1].id = resp.tool_calls[ti].id
          /\ Uses[DoneBefore + 1].name = resp.tool_calls[ti].name
          /\ Uses[DoneBefore + 1].m = Len(messages)
    /\ pc = "tool_result" =>
          /\ exec_log = SubSeq(received, 1, DoneBefore + 1)
          /\ Len(Uses) = DoneBefore + 1 /\ Len(Results) = DoneBefore
    /\ pc \in {"call", "save", "returned"} =>
          /\ exec_log = received
          /\ BlockIds(Uses) = CallIds(received)
          /\ BlockIds(Results) = CallIds(received)

\* a response with two tool calls has been dealt with and the loop is about
\* to call the provider again
C4_Witness ==
    /\ pc = "call"
    /\ calls = 1
    /\ Len(exec_log) = 2
    /\ Len(Results) = 2

(***************************************************************************)
(* Properties of a streamed call.                                          *)
(***************************************************************************)
RECURSIVE ConcatDeltas(_)
\* the concatenation of the deltas handed to on_delta
ConcatDeltas(ds) == IF ds = <<>> THEN <<>> ELSE Head(ds).delta \o ConcatDeltas(Tail(ds))

\* text, stop reason and token counts of a response
Accumulated(r) == <<r.text, r.stop_reason, r.input_tokens, r.output_tokens>>

\* C5: once on_delta has returned false or [DONE] has arrived, no further
\* payload is processed, on_delta is not invoked again, and the response the
\* call returns holds the text, stop reason and token counts accumulated up
\* to that point (either dialect).
C5_StopEndsStream ==
    [][stop_seen =>
         /\ slog' = slog
         /\ delivered' = delivered
         /\ Accumulated(sst'.resp) = Accumulated(snap)
         /\ (sstatus' = "returned" => Accumulated(sreturned') = Accumulated(snap))]_vars

\* C5 happens: text was accumulated, then on_delta returned false, and the
\* call has returned.
C5_Witness ==
    /\ sstatus = "returned"
    /\ stop_seen
    /\ delivered # <<>>
    /\ ~delivered[Len(delivered)].ret
    /\ ~IsNull(sreturned.text)
    /\ ~IsNull(sreturned.stop_reason)

\* C6: after a streamed call the response text is the concatenation of every
\* delta handed to on_delta, the one for which on_delta returned false
\* included.
C6_TextIsEveryDelta ==
    sstatus = "returned" => OrEmpty(sreturned.text) = ConcatDeltas(delivered)

RECURSIVE StartedAndStopped(_, _, _)
\* the tool_use blocks of a dialect-A event sequence that were started and
\* stopped, each with the fragments received since its start
StartedAndStopped(log, pend, list) ==
    IF log = <<>> THEN list
    ELSE LET p == Head(log) IN
         CASE p.kind = "content_block_start_tool" ->
                StartedAndStopped(Tail(log),
                    <<[id |-> p.id, name |-> p.name, input_json |-> Some(<<>>)]>>, list)
           [] p.kind = "input_json_delta" /\ pend # <<>> /\ ~IsNull(p.args) ->
                StartedAndStopped(Tail(log),
                    <<[pend[1] EXCEPT !.input_json = Some(Val(@) \o Val(p.args))]>>, list)
           [] p.kind = "content_block_stop" /\ pend # <<>> ->
                StartedAndStopped(Tail(log), <<>>, Append(list, pend[1]))
           [] OTHER -> StartedAndStopped(Tail(log), pend, list)

\* C8: in dialect A every content_block_stop that closes a started tool_use
\* block appends one ToolCall with that block's id, name and the
\* concatenation of its input_json_delta fragments, a stop with nothing
\* pending changes nothing, so the list holds exactly the tool_use blocks
\* that were started and stopped.
C8_StartedAndStoppedListed ==
    (dialect = "A" /\ sstatus # "off") =>
        sst.resp.tool_calls = StartedAndStopped(slog, <<>>, <<>>)

\* the chunks of a dialect-B stream whose tool_calls were processed
ToolChunks(log) ==
    SelectSeq(log, LAMBDA p : p.kind = "chunk" /\ p.tcs # <<>>)

\* the slots a dialect-B stream gave an id, a name or arguments
TouchedSlots(log) ==
    { p.tcs[1].idx : p \in { ToolChunks(log)[k] : k \in 1..Len(ToolChunks(log)) } }

RECURSIVE SlotOf(_, _, _)
\* what slot i of a dialect-B stream received: the id, the name fragments
\* joined, the argument fragments joined
SlotOf(log, i, acc) ==
    IF log = <<>> THEN acc
    ELSE LET tc == Head(log).tcs[1] IN
         IF tc.idx # i THEN SlotOf(Tail(log), i, acc)
         ELSE SlotOf(Tail(log), i,
                [id |-> IF IsNull(tc.id) THEN acc.id ELSE tc.id,
                 name |-> IF IsNull(tc.name) THEN acc.name
                          ELSE Some(OrEmpty(acc.name) \o Val(tc.name)),
                 input_json |-> IF IsNull(tc.args) THEN acc.input_json
                                ELSE Some(OrEmpty(acc.input_json) \o Val(tc.args))])

\* the k-th smallest of the slots a dialect-B stream touched
KthTouched(log, k) ==
    CHOOSE i \in TouchedSlots(log) :
        Cardinality({ j \in TouchedSlots(log) : j < i }) = k - 1

\* C9: at the end of a dialect-B stream the tool-call list has one entry per
\* slot that received an id, a name or arguments, in ascending index order,
\* and none for a slot that received nothing.
C9_OneEntryPerTouchedSlot ==
    (dialect = "B" /\ sstatus = "returned") =>
        /\ Len(sreturned.tool_calls) = Cardinality(TouchedSlots(slog))
        /\ \A k \in 1..Cardinality(TouchedSlots(slog)) :
             sreturned.tool_calls[k].id =
                 SlotOf(ToolChunks(slog), KthTouched(slog, k),
                        [id |-> NULL, name |-> NULL, input_json |-> NULL]).id

\* C10: when the chunks of a dialect-B stream interleave indices and split
\* names and arguments, each ToolCall carries its slot's id, the complete
\* name (the fragments joined) and the complete argument string, in index
\* order.
C10_SlotsAssembled ==
    (dialect = "B" /\ sstatus = "returned") =>
        \A k \in 1..Len(sreturned.tool_calls) :
            sreturned.tool_calls[k] =
                SlotOf(ToolChunks(slog), k - 1,
                       [id |-> NULL, name |-> NULL, input_json |-> NULL])


(***************************************************************************)
(* Streaming parity: the event stream of a model output against the        *)
(* response body of the same output.                                       *)
(***************************************************************************)
RECURSIVE WellFormedA(_, _)
\* a dialect-A event sequence that delivers a whole message: text blocks
\* and tool_use blocks (each with an id), every block started and stopped
WellFormedA(log, mode) ==
    IF log = <<>> THEN mode = "none"
    ELSE LET p == Head(log) IN
         CASE p.kind \in {"message_start", "message_delta"} ->
                mode = "none" /\ WellFormedA(Tail(log), "none")
           [] p.kind = "content_block_start_text" ->
                mode = "none" /\ WellFormedA(Tail(log), "text")
           [] p.kind = "content_block_start_tool" ->
                mode = "none" /\ ~IsNull(p.id) /\ WellFormedA(Tail(log), "tool")
           [] p.kind = "text_delta" -> mode = "text" /\ WellFormedA(Tail(log), "text")
           [] p.kind = "input_json_delta" -> mode = "tool" /\ WellFormedA(Tail(log), "tool")
           [] p.kind = "content_block_stop" ->
                mode # "none" /\ WellFormedA(Tail(log), "none")
           [] OTHER -> FALSE

\* the input object a tool_use block's fragments spell: no fragment text is
\* the empty object
InputOfFragments(frags) == IF frags = <<>> THEN JsonPrint(EmptyObject) ELSE frags

RECURSIVE BlocksOf(_, _, _)
\* the content blocks a well-formed dialect-A event sequence delivers
BlocksOf(log, cur, blocks) ==
    IF log = <<>> THEN blocks
    ELSE LET p == Head(log) IN
         CASE p.kind = "content_block_start_text" ->
                BlocksOf(Tail(log), [type |-> "text", text |-> Some(<<>>), id |-> NULL,
                                     name |-> NULL, input |-> NULL], blocks)
           [] p.kind = "content_block_start_tool" ->
                BlocksOf(Tail(log), [type |-> "tool_use", text |-> NULL, id |-> p.id,
                                     name |-> p.name, input |-> Some(<<>>)], blocks)
           [] p.kind = "text_delta" ->
                BlocksOf(Tail(log), [cur EXCEPT !.text = Some(Val(@) \o OrEmpty(p.text))], blocks)
           [] p.kind = "input_json_delta" ->
                BlocksOf(Tail(log), [cur EXCEPT !.input = Some(Val(@) \o OrEmpty(p.args))], blocks)
           [] p.kind = "content_block_stop" ->
                BlocksOf(Tail(log), cur,
                    Append(blocks, IF cur.type = "tool_use"
                                   THEN [cur EXCEPT !.input = Some(InputOfFragments(Val(@)))]
                                   ELSE cur))
           [] OTHER -> BlocksOf(Tail(log), cur, blocks)

\* the last non-null value of field f over a log, NULL if there is none
LastOf(log, f) ==
    LET ks == { k \in 1..Len(log) : ~IsNull(log[k][f]) } IN
    IF ks = {} THEN NULL ELSE log[CHOOSE k \in ks : \A j \in ks : j <= k][f]

\* the response body of the message a well-formed dialect-A sequence delivers
BodyOfA(log) ==
    [stop_reason |-> LastOf(log, "stop"), in_tok |-> LastOf(log, "in_tok"),
     out_tok |-> LastOf(log, "out_tok"),
     content |-> BlocksOf(log, [type |-> "none"], <<>>)]

\* every tool_use block of the sequence spells an object or nothing
InputsSpellObjects(log) ==
    \A k \in 1..Len(BlocksOf(log, [type |-> "none"], <<>>)) :
        LET b == BlocksOf(log, [type |-> "none"], <<>>)[k] IN
        b.type = "tool_use" => IsJsonObject(Val(b.input))

\* a dialect-B chunk sequence that delivers a whole message: chunks, then
\* [DONE]; the tool-call indices are 0..n-1 and each slot got an id and
\* one name
WellFormedB(log) ==
    /\ log # <<>>
    /\ log[Len(log)].kind = "done"
    /\ \A k \in 1..(Len(log) - 1) : log[k].kind = "chunk"
    /\ TouchedSlots(log) = 0..(Cardinality(TouchedSlots(log)) - 1)
    /\ \A i \in TouchedSlots(log) :
         /\ Cardinality({ k \in 1..Len(log) : /\ log[k].tcs # <<>>
                                              /\ log[k].tcs[1].idx = i
                                              /\ ~IsNull(log[k].tcs[1].id) }) = 1
         /\ Cardinality({ k \in 1..Len(log) : /\ log[k].tcs # <<>>
                                              /\ log[k].tcs[1].idx = i
                                              /\ ~IsNull(log[k].tcs[1].name) }) = 1

RECURSIVE ContentOf(_)
\* the content deltas of a chunk sequence, joined
ContentOf(log) ==
    IF log = <<>> THEN <<>> ELSE OrEmpty(Head(log).text) \o ContentOf(Tail(log))

\* the response body of the message a well-formed dialect-B sequence delivers
BodyOfB(log) ==
    [content |-> IF IsNull(LastOf(log, "text")) THEN NULL ELSE Some(ContentOf(log)),
     tool_calls |-> [k \in 1..Cardinality(TouchedSlots(log)) |->
                       LET c == SlotOf(ToolChunks(log), k - 1,
                                       [id |-> NULL, name |-> NULL, input_json |-> NULL])
                       IN  [id |-> c.id, name |-> c.name, args |-> c.input_json]],
     finish |-> LastOf(log, "stop"), in_tok |-> LastOf(log, "in_tok"),
     out_tok |-> LastOf(log, "out_tok")]

\* the input of a tool call, parsed
ParsedInput(j) ==
    IF IsNull(j) THEN [ok |-> FALSE, members |-> <<>>]
    ELSE IF IsJsonObject(Val(j)) THEN [ok |-> TRUE, members |-> JsonMembers(Val(j))]
    ELSE [ok |-> FALSE, members |-> <<>>]

\* equal text and equal tool-call lists (ids, names, parsed inputs)
SameOutput(a, b) ==
    /\ a.text = b.text
    /\ Len(a.tool_calls) = Len(b.tool_calls)
    /\ \A k \in 1..Len(a.tool_calls) :
         /\ a.tool_calls[k].id = b.tool_calls[k].id
         /\ a.tool_calls[k].name = b.tool_calls[k].name
         /\ ParsedInput(a.tool_calls[k].input_json) = ParsedInput(b.tool_calls[k].input_json)

\* C7: for the same model output, delivered as a response body and as the
\* corresponding event stream with on_delta always returning true, the
\* non-streaming and the streaming call of each dialect return equal text
\* and equal tool-call lists (ids, names, parsed inputs), outputs with empty
\* text or a tool call with empty input included.
C7_StreamingParity ==
    (sstatus = "returned" /\ \A k \in 1..Len(delivered) : delivered[k].ret) =>
        /\ (dialect = "A" /\ WellFormedA(slog, "none") /\ InputsSpellObjects(slog)) =>
              SameOutput(sreturned, parse_response(BodyOfA(slog)))
        /\ (dialect = "B" /\ WellFormedB(slog)) =>
              SameOutput(sreturned, openai_parse_response(BodyOfB(slog)))


(***************************************************************************)
(* Properties of agent_turn on malformed and failed responses.             *)
(***************************************************************************)
\* C11: whatever the provider returns, agent_turn does not crash, and every
\* tool call it hands to session_add_tool_use and tool_execute has an id
\* and a name.
C11_NoNullToolCall ==
    /\ pc # "crashed"
    /\ pc \in {"tool_exec", "tool_result"} =>
         /\ ~IsNull(resp.tool_calls[ti].id)
         /\ ~IsNull(resp.tool_calls[ti].name)

\* C12: after a failed provider call (no connection, unparsable body, error
\* envelope; streaming or not; either dialect) agent_turn returns a
\* non-empty text.
C12_FailureHasText ==
    (pc = "returned" /\ failure # "none") =>
        /\ ~IsNull(final_text)
        /\ Val(final_text) # <<>>

\* the outputs of the failing tool calls of the model
FailureOutputs ==
    { Tok("Unknown tool: nosuch"), Tok("Error: invalid JSON input"),
      Tok("Error: missing 'command' parameter"), Tok("[exit 1]") }

C14_OutputAtMost128K == tool_len <= 131072

(***************************************************************************)
(* Session file.                                                           *)
(***************************************************************************)
\* C15: for any sequence of session_add_* calls on a session that has an id,
\* session_save followed by session_new with the same workspace and id gives
\* a session with an equal message list whose count is the length of the list.
C15_RoundTrip ==
    (op = "new" /\ ~IsNull(session_id)) =>
        /\ reloaded.messages = messages
        /\ reloaded.count = Len(reloaded.messages)

\* C16: session_add_tool_use puts the tool_use block at the end of the last
\* message when that message's role is assistant, and otherwise appends exactly
\* one new assistant message holding the block alone; the messages before are
\* as they were, and count is the number of messages.
C16_ToolUseFrame ==
    [][(op' = "add_tool_use" /\ nops' = nops + 1) =>
        LET n == Len(messages)
            last == messages'[Len(messages')]
        IN  /\ count' = Len(messages')
            /\ last.role = "assistant"
            /\ last.kind = "array"
            /\ last.blocks[Len(last.blocks)].type = "tool_use"
            /\ IF n > 0 /\ messages[n].role = "assistant"
               THEN /\ Len(messages') = n
                    /\ \A i \in 1..(n - 1) : messages'[i] = messages[i]
                    /\ Len(last.blocks) = Len(messages[n].blocks) + 1
                    /\ SubSeq(last.blocks, 1, Len(last.blocks) - 1) = messages[n].blocks
               ELSE /\ Len(messages') = n + 1
                    /\ SubSeq(messages', 1, n) = messages
                    /\ Len(last.blocks) = 1]_vars

\* a tool_use block was put into the assistant message that follows a user message
C16_Witness ==
    /\ op = "add_tool_use"
    /\ Len(messages) = 2
    /\ messages[1].role = "user"
    /\ messages[2].role = "assistant"
    /\ Len(messages[2].blocks) = 2
    /\ messages[2].blocks[2].type = "tool_use"

\* C17: a response that carries both text and tool calls yields a single
\* assistant message that holds the text block together with the tool_use
\* blocks; the text is not lost from the session.  Stated where the first
\* tool_use block of such a response has just been added.
C17_TextKeptWithToolUse ==
    (pc = "tool_exec" /\ ti = 1 /\ resp.text \notin {NULL, Some(<<>>)}) =>
        LET last == messages[Len(messages)] IN
        /\ last.role = "assistant"
        /\ last.kind = "array"
        /\ \E i \in 1..Len(last.blocks) :
             /\ last.blocks[i].type = "text"
             /\ last.blocks[i].text = resp.text
        /\ \E j \in 1..Len(last.blocks) :
             /\ last.blocks[j].type = "tool_use"
             /\ last.blocks[j].id = resp.tool_calls[1].id

\* C18: every agent_turn calls session_save exactly once, after its last
\* append and before it returns, on every exit path; when the session has an
\* id the file then holds the complete message list.
C18_SavedOnceAtReturn ==
    /\ pc \notin {"idle", "returned"} => saves = 0
    /\ pc = "returned" =>
         /\ saves = 1
         /\ ~IsNull(session_id) =>
              /\ ~IsNull(disk.file)
              /\ session_new(workspace, session_id, disk).messages = messages

(***************************************************************************)
(* Cron scheduler.                                                         *)
(***************************************************************************)
\* the invocations of job j's callback within wall-clock minute m
FiredIn(j, m) == Cardinality({k \in 1..Len(fired[j]) : fired[j][k] = m})
\* the wall-clock minutes the model watches
WatchedMinutes == (WatchStart \div 60)..((WatchEnd \div 60) + 3)

\* C19: whatever the spacing of the passes and the duration of the callbacks,
\* also of an earlier job's callback of the same pass, every job's callback is
\* invoked at most once within any wall-clock minute, and only in a minute
\* that matches its expression.
C19_OncePerMatchingMinute ==
    \A j \in 1..Len(fired) : \A m \in WatchedMinutes :
        /\ FiredIn(j, m) <= 1
        /\ FiredIn(j, m) = 1 => cron_matches(jobs[j].expr, localtime(m * 60))

\* C20: while cron_run keeps its 30-second interval (no callback has held a
\* pass up), a "*/5 * * * *" job fires exactly once during 12:05, not during
\* 12:06, exactly once during 12:10: once in every minute that matches and
\* has gone by, never twice, and never in another minute.
C20_EveryFiveMinutes ==
    \A j \in 1..Len(jobs) :
        (jobs[j].expr = cron_parse(EveryFive) /\ slow = 0) =>
            \A m \in WatchedMinutes :
                IF m % 5 # 0 THEN FiredIn(j, m) = 0
                ELSE IF clock >= (m + 1) * 60 THEN FiredIn(j, m) = 1
                ELSE FiredIn(j, m) <= 1

\* 12:10 has gone by and the */5 job has fired in 12:05 and in 12:10
C20_Witness ==
    /\ slow = 0
    /\ clock >= (12 * 60 + 11) * 60
    /\ \E j \in 1..Len(jobs) :
         /\ jobs[j].expr = cron_parse(EveryFive)
         /\ fired[j] = <<12 * 60 + 5, 12 * 60 + 10>>

(***************************************************************************)
(* Registration beside the run loop.                                       *)
(***************************************************************************)
\* C21: every callback cron_run starts belongs to a slot whose name,
\* expression, callback and userdata come from one completed cron_add, and
\* no callback starts after a cron_remove of its job has returned.
C21_SafeRegistration ==
    last_start # NoStart =>
        /\ [name |-> last_start.name, expr |-> last_start.expr,
            fn |-> last_start.fn, userdata |-> last_start.userdata] \in added
        /\ ~last_start.late

\* the whitespace-separated fields of an expression text, counted in place
FieldCount(s) ==
    Cardinality({i \in 1..Len(s) :
                    /\ s[i] \notin {" ", "\t"}
                    /\ (i = 1 \/ s[i - 1] \in {" ", "\t"})})

\* C22: a cron_add on a table with room succeeds exactly when its expression
\* has five whitespace-separated fields; with fewer or more it returns -1.
C22_ExactlyFiveFields ==
    (last_add # NoAdd /\ last_add.count < CRON_MAX_JOBS) =>
        (last_add.ret >= 0 <=> FieldCount(last_add.expr_str) = 5)

\* the registered jobs are the same before and after the step
RegisteredKept == \A i \in 1..sched_count : table'[i] = table[i]

\* C23: the job count never exceeds CRON_MAX_JOBS; a cron_add on a full table
\* returns -1; and every cron_add that returns -1 leaves the count and the
\* registered jobs as they were, in each of its steps.
C23_BoundedTable ==
    [][ /\ sched_count' <= CRON_MAX_JOBS
        /\ (last_add' # last_add /\ sched_count >= CRON_MAX_JOBS) => last_add'.ret = -1
        /\ (last_add' # last_add /\ last_add'.ret = -1) =>
               (sched_count' = sched_count /\ RegisteredKept)
        /\ (reg_pc = "idle" /\ reg_pc' = "add_parse") =>
               (sched_count' = sched_count /\ RegisteredKept) ]_vars

\* a cron_add was refused on the full table, another for its expression
\* before that
C23_Witness ==
    /\ sched_count = CRON_MAX_JOBS
    /\ last_add.ret = -1
    /\ last_add.count = CRON_MAX_JOBS
    /\ table[CRON_MAX_JOBS].name = JobName(CRON_MAX_JOBS + 2)

(***************************************************************************)
(* The frame codec.                                                        *)
(***************************************************************************)
\* C28: the reader gets from the writer's bytes the opcode, the payload and
\* its length; the writer takes the 7-bit length form below 126 bytes, the
\* 16-bit form below 65536 and the 64-bit form from there on, and never sets
\* the mask bit; and the reader gets the payload of a client's masked frame
\* back whatever the masking key.
C28_CodecInverse ==
    /\ fr_pc = "read" =>
           /\ fr_frame.rc = 0
           /\ fr_frame.opcode = fr_op
           /\ fr_frame.payload = fr_data
           /\ fr_frame.payload_len = Len(fr_data)
    /\ (fr_pc \in {"wire", "read"} /\ IsNull(fr_mask)) =>
           /\ fr_wire[2] < 128
           /\ Len(fr_data) < 126 => (fr_wire[2] = Len(fr_data) /\ Len(fr_wire) = 2 + Len(fr_data))
           /\ (Len(fr_data) >= 126 /\ Len(fr_data) < 65536) =>
                  (fr_wire[2] = 126 /\ Len(fr_wire) = 4 + Len(fr_data))
           /\ Len(fr_data) >= 65536 => (fr_wire[2] = 127 /\ Len(fr_wire) = 10 + Len(fr_data))

\* a frame of 65536 bytes from the server and a masked frame of 126 bytes
\* have been read
C28_Witness ==
    /\ fr_pc = "read"
    /\ \/ Len(fr_data) = 65536
       \/ (Len(fr_data) = 126 /\ fr_mask = Some(<<55, 250, 33, 61>>))

(***************************************************************************)
(* The WebSocket server.                                                   *)
(***************************************************************************)
\* the connections whose handshake has been seen
Shaken == {c \in 1..Len(conns) : conns[c].hs # -2}

\* the request target, and what follows its first '?'
TargetOf(req) == SubSeq(req, 3, ScanTo(req, 3, {" "}) - 1)
QueryOf(target) == SubSeq(target, ScanTo(target, 1, {"?"}) + 1, Len(target))

\* the query has a parameter token=<token>, the whole of it between two '&'
HasTokenParam(q, token) ==
    \E i \in 1..Len(q) :
        LET j == i + Len(token) + 1 IN
        /\ j <= Len(q)
        /\ SubSeq(q, i, j) = <<"token", "=">> \o token
        /\ i = 1 \/ q[i - 1] = "&"
        /\ j = Len(q) \/ q[j + 1] = "&"

\* what admits a client, as the request states it
Admissible(req, token) ==
    \/ strstr(req, <<CRLF>> \o HeaderLine("Authorization", <<"Bearer", " ">> \o token), 1) # 0
    \/ HasTokenParam(QueryOf(TargetOf(req)), token)

\* C24: with an auth token configured, an upgrade request with a key, arriving
\* while there is room, is admitted to the poll set exactly if it carries
\* "Authorization: Bearer <token>" or the query parameter token=<token> in its
\* target, with the exact token; a token= text elsewhere does not admit.
C24_AdmittedIffToken ==
    \A c \in Shaken :
        (/\ ~IsNull(auth_token)
         /\ strstr(conns[c].req, HeaderLine("Upgrade", <<"websocket">>), 1) # 0
         /\ strstr(conns[c].req, KeyLine, 1) # 0
         /\ conns[c].peers < MAX_CLIENTS)
        => (conns[c].connects = 1 <=> Admissible(conns[c].req, Val(auth_token)))

\* C25: a connection whose handshake fails gets an HTTP error status (401 if
\* it was the token that failed) before it is closed, never enters the poll
\* set and never reaches on_connect.
C25_FailureAnswered ==
    \A c \in Shaken :
        conns[c].hs = -1 =>
            /\ conns[c].state = "closed"
            /\ conns[c].connects = 0
            /\ \A i \in 1..Len(fds) : fds[i] # c
            /\ Len(conns[c].out) = 1
            /\ conns[c].out[1].kind = "http"
            /\ conns[c].out[1].bytes[3] \in {"400", "401", "403", "426"}

\* the items the server has read from a connection, and the frames it wrote
Got(c) == SubSeq(conns[c].sent, 1, conns[c].nread)
IsFrameOut(o) == o.kind = "frame"
FramesOut(c) ==
    LET fr == SelectSeq(conns[c].out, IsFrameOut)
    IN  [k \in 1..Len(fr) |-> ws_read_frame(fr[k].bytes)]
IsText(item) == item.kind = "text"
IsPing(item) == item.kind = "ping"
IsPong(f) == f.opcode = WS_OP_PONG
IsTextFrame(f) == f.opcode = WS_OP_TEXT
IsCloseFrame(f) == f.opcode = WS_OP_CLOSE

\* the item ends the connection: a close frame, a broken frame, a text that
\* on_message refuses
Ends(item) ==
    \/ item.kind \in {"close", "cut"}
    \/ item.kind = "text" /\ on_message = "refusing"

\* the connections in the slots
InSlots == {fds[i] : i \in 1..Len(fds)}

C26_Inv ==
    LET slots == InSlots IN
    /\ Cardinality(slots) = Len(fds)
    /\ \A c \in 1..Len(conns) :
        conns[c].connects = 1 =>
            /\ conns[c].state = "closed" <=> c \notin slots
            \* (a client that is as at the start has read, written and called nothing)
            /\ conns[c] # OldConn =>
                LET got == Got(c)
                    frames == FramesOut(c)
                    pongs == SelectSeq(frames, IsPong)
                    pings == SelectSeq(got, IsPing)
                    closing == SelectSeq(frames, IsCloseFrame)
                    closed == conns[c].state = "closed"
                IN  /\ conns[c].messages = Len(SelectSeq(got, IsText))
                    /\ Len(pongs) = Len(pings)
                    /\ \A k \in 1..Len(pings) : pongs[k].payload = pings[k].data
                    /\ \A k \in 1..Len(got) : Ends(got[k]) <=> (closed /\ k = Len(got))
                    /\ closed <=> (got # <<>> /\ Ends(got[Len(got)]))
                    /\ Len(closing) = IF closed /\ got[Len(got)].kind \in {"close", "text"}
                                      THEN 1 ELSE 0
                    /\ Len(closing) = 1 => IsCloseFrame(frames[Len(frames)])
                    /\ conns[c].disconnects = (IF closed THEN 1 ELSE 0)
                    /\ conns[c].closes = (IF closed THEN 1 ELSE 0)

\* C26: for a client of the poll set, every text frame calls on_message once; a
\* close frame and a refusing on_message make the server write a close frame;
\* with these and with a failed read the client leaves the poll set,
\* on_disconnect is called once, the socket is closed once, and nothing is
\* read, written or called for it afterwards; a ping gets a pong with its
\* payload and the client stays.
C26_ClientLifecycle ==
    /\ []C26_Inv
    /\ [][\A c \in 1..Len(conns) : conns[c].state = "closed" => conns'[c] = conns[c]]_vars

\* a client was dropped for its close frame while another had a frame waiting
C26_Witness ==
    \E c \in 1..Len(conns) :
        /\ conns[c].state = "closed"
        /\ conns[c].disconnects = 1
        /\ Got(c) # <<>>
        /\ Got(c)[Len(Got(c))].kind = "close"
        /\ \E d \in 1..Len(conns) : d # c /\ conns[d].state = "open" /\ conns[d].messages = 1

\* C27: the poll set is the listener and at most MAX_CLIENTS clients, each
\* connection in one slot at most; a client whose handshake succeeds while
\* MAX_CLIENTS are connected is closed, is not in the poll set and has not
\* been reported through on_connect.
C27_PollSetBounded ==
    /\ ws_pc # "off" => (1 <= Len(fds) + 1 /\ Len(fds) + 1 <= MAX_CLIENTS + 1)
    /\ Cardinality({fds[i] : i \in 1..Len(fds)}) = Len(fds)
    /\ \A c \in Shaken :
           (conns[c].hs = 0 /\ conns[c].peers = MAX_CLIENTS) =>
               /\ conns[c].state = "closed"
               /\ conns[c].connects = 0
               /\ \A i \in 1..Len(fds) : fds[i] # c

\* a handshake has succeeded with all slots taken
C27_Witness ==
    /\ Len(fds) = MAX_CLIENTS
    /\ \E c \in Shaken : conns[c].hs = 0 /\ conns[c].peers = MAX_CLIENTS

\* C29: the gateway writes one text frame back for every text frame it has
\* read from a client, with the final text of that frame's turn, the empty
\* text where the turn ended with an empty or with no final text.
C29_OneReplyPerText ==
    on_message = "gateway" =>
        \A c \in 1..Len(conns) :
            LET texts == SelectSeq(FramesOut(c), IsTextFrame) IN
            /\ Len(texts) = Len(SelectSeq(Got(c), IsText))
            /\ Len(texts) = Len(conns[c].replies)
            /\ \A k \in 1..Len(texts) : texts[k].payload = OrEmpty(conns[c].replies[k])

SampleAccept ==
    <<"s", "3", "p", "P", "L", "M", "B", "i", "T", "x", "a", "Q", "9", "k", "Y", "G",
      "z", "z", "h", "Z", "R", "b", "K", "+", "x", "O", "o", "=">>

\* C30: the 101 reply to a request with the key dGhlIHNhbXBsZSBub25jZQ==
\* carries Sec-WebSocket-Accept: s3pPLMBiTxaQ9kYGzzhZRbK+xOo=.
C30_SampleAccept ==
    \A c \in Shaken :
        (conns[c].hs = 0 /\ find_header(conns[c].req, "Sec-WebSocket-Key") = Some(SampleKey)) =>
            /\ conns[c].out # <<>>
            /\ conns[c].out[1].kind = "http"
            /\ strstr(conns[c].out[1].bytes,
                      HeaderLine("Sec-WebSocket-Accept", SampleAccept), 1) # 0

(***************************************************************************)
(* The poll loop's removal of a client (ws.c:296-337).                     *)
(***************************************************************************)
\* how often ws_read_frame has returned on connection c in this pass
ReadsOf(c) == Cardinality({k \in 1..Len(ws_reads) : ws_reads[k] = c})

\* the slots the loop over the clients has still to look at
SlotsAhead == {j \in 1..Len(fds) : j >= ws_i}

C31_Inv ==
    ws_pc = "clients" =>
        \A c \in ws_ready :
            /\ ReadsOf(c) <= 1
            /\ ReadsOf(c) = 0 =>
                   \E j \in SlotsAhead : fds[j] = c /\ revents[j] = "in"
            /\ ws_i > Len(fds) => ReadsOf(c) = 1

C31_Step ==
    Len(fds') < Len(fds) =>
        /\ Len(fds') = Len(fds) - 1
        /\ ws_pc' = "clients"
        /\ ws_i < Len(fds) => fds'[ws_i] = fds[Len(fds)]
        /\ \A j \in 1..Len(fds') : j # ws_i => fds'[j] = fds[j]
        /\ \A j \in 1..Len(fds) :
              j # ws_i => Cardinality({k \in 1..Len(fds') : fds'[k] = fds[j]}) = 1
        /\ \A k \in 1..Len(fds') : fds'[k] # fds[ws_i]

\* C31: when the client in slot i is removed, the client of the last slot
\* moves into slot i and the number of slots goes down by one; every other
\* client stays in the poll set exactly once, and a client the poll of this
\* pass reported readable is read in this pass once: it waits in a slot the
\* loop has still to look at until it is read, and it has been read when the
\* loop is over, also when the last slot is the one removed and when several
\* clients are removed in one pass.
C31_SwapRemoval == [](C31_Inv) /\ [][C31_Step]_vars

\* two clients were readable in one pass; the first was removed, the second
\* came into its slot, was read there and was removed as the last slot
C31_Witness ==
    /\ ws_pc = "clients"
    /\ ws_ready = {1, 2}
    /\ ws_reads = <<1, 2>>
    /\ conns[1].state = "closed"
    /\ conns[2].state = "closed"
    /\ fds = <<>>

\* the loop stands in ws_read_frame on a slot
InRead ==
    /\ ws_pc = "clients"
    /\ ws_i <= Len(fds)
    /\ revents[ws_i] \in {"in", "unset"}

\* C37: in each pass ws_read_frame is called only on clients that the poll
\* of that pass reported readable: a client accepted in this pass is not
\* read before a later poll reports it, so the loop does not wait in a read
\* on a client that has sent nothing.
C37_ReadsOnlyPolled ==
    /\ \A k \in 1..Len(ws_reads) : ws_reads[k] \in ws_ready
    /\ InRead /\ revents[ws_i] = "in" => fds[ws_i] \in ws_ready

(***************************************************************************)
(* Properties of cron_parse and cron_matches.                              *)
(***************************************************************************)
\* the fields of the text in their order
FieldsOf(text) == strtok_all(text, <<>>)

\* a string of digits, and the number it spells
AllDigits(f) == f # <<>> /\ \A k \in 1..Len(f) : IsDigit(f[k])
RECURSIVE DecimalOf(_)
DecimalOf(f) ==
    IF f = <<>> THEN 0
    ELSE 10 * DecimalOf(SubSeq(f, 1, Len(f) - 1)) + DigitVal(f[Len(f)])

\* the range of the q-th field (cron.c:55-59)
FieldRange(q) == <<0..59, 0..23, 1..31, 1..12, 0..6>>[q]

IsWildcard(f) == f = <<"*">>
StepOf(f) == SubSeq(f, 3, Len(f))
IsStep(f) ==
    /\ Len(f) >= 3
    /\ f[1] = "*"
    /\ f[2] = "/"
    /\ AllDigits(StepOf(f))
    /\ DecimalOf(StepOf(f)) >= 1
IsExact(f, q) == AllDigits(f) /\ DecimalOf(f) \in FieldRange(q)
ValidField(f, q) == IsWildcard(f) \/ IsStep(f) \/ IsExact(f, q)
ValidExpr(text) ==
    /\ Len(FieldsOf(text)) = 5
    /\ \A q \in 1..5 : ValidField(FieldsOf(text)[q], q)

\* C32: cron_parse accepts a field only when it is *, a step with N >= 1,
\* or a decimal integer inside the range of its place; an expression with
\* any other field (a step of 0, a range, a list, a name, a number below 0
\* or out of range) makes the parse fail.
C32_OnlyValidFields ==
    px_pc \in {"parsed", "matched"} /\ px_rc = 0 => ValidExpr(px_text)

\* the value of the local time the q-th field is compared with
TimeVal(t, q) == <<t.tm_min, t.tm_hour, t.tm_mday, t.tm_mon + 1, t.tm_wday>>[q]

\* what a field of the grammar asks of a value
FieldHolds(f, v) ==
    \/ IsWildcard(f)
    \/ AllDigits(f) /\ DecimalOf(f) = v
    \/ IsStep(f) /\ v % DecimalOf(StepOf(f)) = 0

\* C33: for an expression of valid fields and a local time, cron_matches is
\* true exactly when every field is a wildcard, or equals the value of the
\* time, or is a step N and the value is a multiple of N.
C33_MatchesAsWritten ==
    px_pc = "matched" /\ ValidExpr(px_text) =>
        (px_match <=> \A q \in 1..5 : FieldHolds(FieldsOf(px_text)[q], TimeVal(px_tm, q)))

(***************************************************************************)
(* cron_remove (cron.c:107-116).                                           *)
(***************************************************************************)
\* the last call of the registering thread was a cron_remove that has returned
JustRemoved == reg_pc = "idle" /\ last_remove.op = reg_ops /\ last_remove.op > 0

C40_Inv ==
    JustRemoved /\ last_remove.ret =>
        \A i \in 1..sched_count :
            table[i].name = last_remove.name => ~table[i].active

C40_Step ==
    last_remove' # last_remove =>
        /\ sched_count' = sched_count
        /\ Cardinality({i \in 1..CRON_MAX_JOBS : table'[i] # table[i]}) <= 1
        /\ \A i \in 1..CRON_MAX_JOBS :
              table'[i] = [table[i] EXCEPT !.active = table'[i].active]

\* C40: cron_remove changes nothing but the active flag of one job, with no
\* index shift and the count as before, and after cron_remove(name) has
\* returned true no active job of that name remains, also when a job of that
\* name was removed before and a new one registered under the name.
C40_RemoveLeavesNone == [](C40_Inv) /\ [][C40_Step]_vars

(***************************************************************************)
(* The roles of a session's messages over several agent_turn calls.        *)
(***************************************************************************)
\* the role the k-th message has when user and assistant take turns
RoleAt(k) == IF k % 2 = 1 THEN "user" ELSE "assistant"

\* C34: after any sequence of agent_turn calls on one session, whatever the
\* provider returned (empty responses and turns that use up all ten
\* iterations included), the messages are user and assistant in turn,
\* beginning with user.
C34_RolesAlternate ==
    pc = "returned" => \A k \in 1..Len(messages) : messages[k].role = RoleAt(k)

(***************************************************************************)
(* The gateway's sessions.                                                 *)
(***************************************************************************)
\* C35: the history of an agent turn run for a client of the gateway holds
\* only messages of that client's connection; the first turn of a new
\* connection starts from a session without messages of an earlier client,
\* also when the descriptor number is used again after a disconnect.
C35_OwnHistoryOnly ==
    gw_hist.client # 0 =>
        /\ \A k \in 1..Len(gw_hist.messages) :
              gw_hist.messages[k].role = "user" =>
                  gw_hist.messages[k].text = IdStr(gw_hist.client)
        /\ gw_clients[gw_hist.client].turns = 1 => Len(gw_hist.messages) = 1

(***************************************************************************)
(* The termination signal.                                                 *)
(***************************************************************************)
\* C36: once g_running has been cleared by a termination signal during a
\* streamed agent turn, that turn executes no further tool and starts no
\* further provider call: it ends with the current response.
C36_SignalEndsTurn ==
    [][g_running = 0 /\ pc # "returned" =>
          /\ exec_log' = exec_log
          /\ calls' = calls]_vars

(***************************************************************************)
(* The slot tables of the second dialect's stream handler.                 *)
(***************************************************************************)
\* the tool-call deltas of the payloads handled so far
RECURSIVE DeltasOf(_)
DeltasOf(log) == IF log = <<>> THEN <<>> ELSE DeltasOf(SubSeq(log, 1, Len(log) - 1)) \o log[Len(log)].tcs

\* the indexes the handler has used on tool_ids, tool_names and tool_args
UsedIndexes(log) ==
    {DeltasOf(log)[k].idx :
        k \in {j \in 1..Len(DeltasOf(log)) : ~Skipped(DeltasOf(log)[j]) /\ Carries(DeltasOf(log)[j])}}

C38_Inv ==
    /\ sst.num_tools \in 0..OAI_SLOTS
    /\ UsedIndexes(slog) \subseteq 0..(OAI_SLOTS - 1)
    /\ Len(sst.tool_ids) <= OAI_SLOTS
    /\ Len(sst.tool_names) <= OAI_SLOTS
    /\ Len(sst.tool_args) <= OAI_SLOTS

\* the payload handled in this step carries only deltas of indexes outside
\* the tables
OutsideOnly ==
    /\ Len(slog') = Len(slog) + 1
    /\ slog'[Len(slog')].tcs # <<>>
    /\ \A k \in 1..Len(slog'[Len(slog')].tcs) :
          slog'[Len(slog')].tcs[k].idx \notin 0..(OAI_SLOTS - 1)

C38_Step ==
    OutsideOnly =>
        /\ sst'.tool_ids = sst.tool_ids
        /\ sst'.tool_names = sst.tool_names
        /\ sst'.tool_args = sst.tool_args
        /\ sst'.num_tools = sst.num_tools
        /\ sstatus' # "crashed"

\* C38: a tool-call delta whose index is outside 0..31, at or above 32 or
\* below 0, leaves the slot tables and the tool count as they are; every
\* read and write of the id, name and argument tables uses an index in
\* 0..31, and the tool count stays within 0..32.
C38_SlotsInRange == [](C38_Inv) /\ [][C38_Step]_vars

(***************************************************************************)
(* The system prompt buffer.                                               *)
(***************************************************************************)
\* out has been taken from the arena
OutTaken == sp_pc \in {"files", "tail", "returned", "crashed"}

\* C39: once ws_build_system_prompt has taken its 128 KiB buffer from the
\* arena, every byte it writes through out lands inside those 128 KiB, the
\* prompt with its closing NUL fits in them, and the arena's block is still
\* the one out points into: no later arena allocation has moved it.
C39_PromptStaysInside ==
    OutTaken =>
        /\ sp_top <= PROMPT_CAP
        /\ sp_len < PROMPT_CAP
        /\ sp_out.gen = sp_arena.gen
====
